---------------------------- MODULE Spec2Model ----------------------------
(***************************************************************************)
(* tt-smi: the Grayskull tensix reset sequencer (gs_tensix_reset.py), the  *)
(* register map accessors (registers.py), the chassis reset threads        *)
(* (resets/wh_resets.py) and the board / galaxy reset orchestration        *)
(* (tt_smi_backend.py, tt_smi.py).                                         *)
(*                                                                         *)
(* A 32-bit (or 64-bit) word is modelled as the set of the positions of    *)
(* its 1 bits: x & y is the intersection, x | y the union, x & ~y the set  *)
(* difference, x << n and x >> n move the positions.  TLC's integers stop  *)
(* at 2^31 - 1, below 0xFFFFFFFF.                                          *)
(***************************************************************************)
EXTENDS Integers, Sequences, FiniteSets, TLC

VARIABLES
    \* ---- GSTensixReset (gs_tensix_reset.py)
    gs_pc,            \* position in __init__ / tensix_reset
    gs_i,             \* loop index of the running step
    fuse,             \* value the harvesting fuses read (or the override)
    override,         \* T6PY_HARVESTING_OVERRIDE is in the environment
    harvested_rows,   \* self.harvested_rows
    core_list,        \* keys of self.core_list
    bus_log,          \* mailbox calls and bus writes issued so far, in order
    noc,              \* NOC / AXI node registers written so far: key -> word
    noc_init,         \* what a node register holds before it is first written
    gs_exc            \* an exception is propagating out of __init__ / tensix_reset

gsVars == <<gs_pc, gs_i, fuse, override, harvested_rows, core_list, bus_log, noc, noc_init, gs_exc>>

VARIABLES
    \* ---- Registers (registers.py)
    bus,              \* the 32-bit words behind read_function / write_function
    writer,           \* what the injected writer does with a value over 32 bits
    reg_last,         \* the last Registers call: arguments, outcome, bus accesses
    reg_prev,         \* the call before it
    reg_n             \* number of calls made

regVars == <<bus, writer, reg_last, reg_prev, reg_n>>

VARIABLES
    \* ---- threaded_mobo_reset / warm_reset_mobo (resets/wh_resets.py)
    mobo_pc,          \* position of the calling thread
    mobo_entry,       \* the function that was called
    mobo_dict_list,   \* the chassis of the call, by position
    mobo_fn,          \* the function the threads of the running call execute
    mobo_k,           \* loop index of the start loop / join loop
    all_threads,      \* position -> [st, exc] of the ThreadWrapper objects
    mobo_log,         \* thread starts, thread ends and reports, in order
    mobo_exit         \* exit status of the process, NoExit while it runs

moboVars == <<mobo_pc, mobo_entry, mobo_dict_list, mobo_fn, mobo_k, all_threads, mobo_log, mobo_exit>>

VARIABLES
    \* ---- pci_board_reset (tt_smi_backend.py)
    pci_pc,           \* position in pci_board_reset
    list_of_boards,   \* the argument
    reinit,           \* the argument
    chip_kind,        \* PCI index -> what opening the device gives
    pci_k,            \* index of the classification loop
    reset_wh_pci_idx, \* the list built for WHChipReset
    reset_bh_pci_idx, \* the list built for BHChipReset
    on_bus,           \* the PCI indices that answer on the bus now
    pci_calls,        \* calls of reset routines and of detect_chips_with_callback
    pci_exit          \* exit status of the process, NoExit while it runs

pciVars == <<pci_pc, list_of_boards, reinit, chip_kind, pci_k, reset_wh_pci_idx,
             reset_bh_pci_idx, on_bus, pci_calls, pci_exit>>

VARIABLES
    \* ---- galaxy reset: main (tt_smi.py), glx_6u_trays_reset (tt_smi_backend.py)
    glx_pc,           \* position in main / glx_6u_trays_reset
    glx_entry,        \* the command line option, or the function called
    glx_args,         \* reinit and ubb_num of the running glx_6u_trays_reset
    reset_try_number, \* main's retry counter
    chips,            \* number of chips detect_chips_with_callback returned
    link_words,       \* <<chip, x, y, value>>: the debug words that are not 0
    eth_reads,        \* <<chip, noc_id, x, y, addr>> read by the link check
    glx_log,          \* calls into the rack, in order
    glx_exit          \* exit status of the process, NoExit while it runs

glxVars == <<glx_pc, glx_entry, glx_args, reset_try_number, chips, link_words,
             eth_reads, glx_log, glx_exit>>

VARIABLES
    \* ---- Registers.load_address_space_map (registers.py)
    cached_registers, \* Registers.cached_registers: filename -> address space map
    ld_last,          \* the last load: filename, outcome, self.addr_space_map
    ld_n              \* number of loads made

loadVars == <<cached_registers, ld_last, ld_n>>

VARIABLES
    \* ---- telemetry and version decoding (tt_smi_backend.py, utils_common.py)
    tm_arch,          \* "wh" or "bh": which of as_wh() / as_bh() the chip answers
    smbus_telem_info, \* self.smbus_telem_info[board_num]: tag -> word or None
    dec_in,           \* the argument handed to a decoder
    tm_last           \* the last decoding made: function, raised, result

telemVars == <<tm_arch, smbus_telem_info, dec_in, tm_last>>

VARIABLES
    \* ---- wait_for_boot_complete (resets/wh_resets.py)
    boot_pc,          \* "start", "version", "returned", "raised"
    boot_args,        \* mobo (its place in mobo_list), len(mobo_list), timeout
    about,            \* what the /about endpoint of the server answers
    server_version,   \* get_server_version(mobo)
    boot_exc          \* the exception the call ended with

bootVars == <<boot_pc, boot_args, about, server_version, boot_exc>>

VARIABLES
    \* ---- the telemetry thread of the GUI (tt_smi.py)
    ui_tab,               \* TabbedContent.active
    ui_n,                 \* tab activations handled so far
    ui_disp,              \* calls of dispatch_telem_thread so far
    ui_devices,           \* len(backend.devices)
    ui_sig,               \* interrupt_handler is installed for SIGTERM / SIGINT
    ui_exited,            \* action_quit has run
    INTERRUPT_RECEIVED,   \* the global of tt_smi.py
    RUNNING_TELEM_THREAD, \* the global of tt_smi.py
    TELEM_THREADS         \* the threads started: [pc, i], i the chip being refreshed

uiVars == <<ui_tab, ui_n, ui_disp, ui_devices, ui_sig, ui_exited, INTERRUPT_RECEIVED,
            RUNNING_TELEM_THREAD, TELEM_THREADS>>

vars == <<gsVars, regVars, moboVars, pciVars, glxVars, loadVars, telemVars, bootVars, uiVars>>

\* what a step of one part leaves alone
notGs == <<regVars, moboVars, pciVars, glxVars, loadVars, telemVars, bootVars, uiVars>>

notReg == <<gsVars, moboVars, pciVars, glxVars, loadVars, telemVars, bootVars, uiVars>>

notMobo == <<gsVars, regVars, pciVars, glxVars, loadVars, telemVars, bootVars, uiVars>>

notPci == <<gsVars, regVars, moboVars, glxVars, loadVars, telemVars, bootVars, uiVars>>

notGlx == <<gsVars, regVars, moboVars, pciVars, loadVars, telemVars, bootVars, uiVars>>

notLoad == <<gsVars, regVars, moboVars, pciVars, glxVars, telemVars, bootVars, uiVars>>

notTelem == <<gsVars, regVars, moboVars, pciVars, glxVars, loadVars, bootVars, uiVars>>

notBoot == <<gsVars, regVars, moboVars, pciVars, glxVars, loadVars, telemVars, uiVars>>

notUi == <<gsVars, regVars, moboVars, pciVars, glxVars, loadVars, telemVars, bootVars>>

-----------------------------------------------------------------------------
(* What each part of the program holds while another part is being run *)

NoCall == [op |-> "none"]

NoExit == 0 - 1

RegIdle ==
    /\ bus = <<>>
    /\ writer = "none"
    /\ reg_last = NoCall
    /\ reg_prev = NoCall
    /\ reg_n = 0

GsIdle ==
    /\ gs_pc = "idle"
    /\ gs_i = 0
    /\ fuse = {}
    /\ override = FALSE
    /\ harvested_rows = {}
    /\ core_list = {}
    /\ bus_log = <<>>
    /\ noc = <<>>
    /\ noc_init = {}
    /\ gs_exc = FALSE

MoboIdle ==
    /\ mobo_pc = "idle"
    /\ mobo_entry = "none"
    /\ mobo_dict_list = <<>>
    /\ mobo_fn = "none"
    /\ mobo_k = 0
    /\ all_threads = <<>>
    /\ mobo_log = <<>>
    /\ mobo_exit = NoExit

PciIdle ==
    /\ pci_pc = "idle"
    /\ list_of_boards = <<>>
    /\ reinit = FALSE
    /\ chip_kind = <<>>
    /\ pci_k = 0
    /\ reset_wh_pci_idx = <<>>
    /\ reset_bh_pci_idx = <<>>
    /\ on_bus = {}
    /\ pci_calls = <<>>
    /\ pci_exit = NoExit

GlxIdle ==
    /\ glx_pc = "idle"
    /\ glx_entry = "none"
    /\ glx_args = <<>>
    /\ reset_try_number = 0
    /\ chips = 0
    /\ link_words = {}
    /\ eth_reads = {}
    /\ glx_log = <<>>
    /\ glx_exit = NoExit

LoadIdle ==
    /\ cached_registers = <<>>
    /\ ld_last = NoCall
    /\ ld_n = 0

TelemIdle ==
    /\ tm_arch = "none"
    /\ smbus_telem_info = <<>>
    /\ dec_in = {}
    /\ tm_last = NoCall

BootIdle ==
    /\ boot_pc = "idle"
    /\ boot_args = <<>>
    /\ about = [ok |-> FALSE, version |-> <<>>]
    /\ server_version = <<>>
    /\ boot_exc = "none"

UiIdle ==
    /\ ui_tab = "none"
    /\ ui_n = 0
    /\ ui_disp = 0
    /\ ui_devices = 0
    /\ ui_sig = FALSE
    /\ ui_exited = FALSE
    /\ INTERRUPT_RECEIVED = FALSE
    /\ RUNNING_TELEM_THREAD = FALSE
    /\ TELEM_THREADS = <<>>

GsOnly == RegIdle /\ MoboIdle /\ PciIdle /\ GlxIdle /\ LoadIdle /\ TelemIdle /\ BootIdle /\ UiIdle

RegOnly == GsIdle /\ MoboIdle /\ PciIdle /\ GlxIdle /\ LoadIdle /\ TelemIdle /\ BootIdle /\ UiIdle

MoboOnly == GsIdle /\ RegIdle /\ PciIdle /\ GlxIdle /\ LoadIdle /\ TelemIdle /\ BootIdle /\ UiIdle

PciOnly == GsIdle /\ RegIdle /\ MoboIdle /\ GlxIdle /\ LoadIdle /\ TelemIdle /\ BootIdle /\ UiIdle

GlxOnly == GsIdle /\ RegIdle /\ MoboIdle /\ PciIdle /\ LoadIdle /\ TelemIdle /\ BootIdle /\ UiIdle

LoadOnly == GsIdle /\ RegIdle /\ MoboIdle /\ PciIdle /\ GlxIdle /\ TelemIdle /\ BootIdle /\ UiIdle

TelemOnly == GsIdle /\ RegIdle /\ MoboIdle /\ PciIdle /\ GlxIdle /\ LoadIdle /\ BootIdle /\ UiIdle

BootOnly == GsIdle /\ RegIdle /\ MoboIdle /\ PciIdle /\ GlxIdle /\ LoadIdle /\ TelemIdle /\ UiIdle

UiOnly == GsIdle /\ RegIdle /\ MoboIdle /\ PciIdle /\ GlxIdle /\ LoadIdle /\ TelemIdle /\ BootIdle

-----------------------------------------------------------------------------
(* Words as sets of bit positions *)

Bits(lo, hi) == {b \in lo..hi : TRUE}

Shl(w, n) == {b + n : b \in w}

Shr(w, n) == {b - n : b \in {c \in w : c >= n}}

WORD32 == Bits(0, 31)

-----------------------------------------------------------------------------
(* GSTensixReset: grid constants *)

GRID_SIZE_X == 13

GRID_SIZE_Y == 12

NUM_TENSIX_X == GRID_SIZE_X - 1

NIU_CFG_0 == 256

ROUTER_CFG_0 == 260

ROUTER_CFG_1 == 264

ROUTER_CFG_3 == 272

NOC_MAX_BACKOFF_EXP == {0, 1, 2, 3}

PHYS_Y_TO_NOC_0_Y == <<0, 11, 1, 10, 2, 9, 3, 8, 4, 7, 5, 6>>

DRAM_LOCATIONS == {<<1, 6>>, <<4, 6>>, <<7, 6>>, <<10, 6>>, <<1, 0>>, <<4, 0>>, <<7, 0>>, <<10, 0>>}

ARC_LOCATIONS == {<<0, 2>>}

PCI_LOCATIONS == {<<0, 4>>}

\* the rows get_core_list filters: [1, 2, 3, 4, 5, 7, 8, 9, 10, 11]
TENSIX_ROWS == {1, 2, 3, 4, 5, 7, 8, 9, 10, 11}

\* 0x3FF, the mask of the memory and of the logic harvesting bits
HARVEST_MASK == Bits(0, 9)

\* int_to_bits(x): the positions of the 1 bits of x, ascending
RECURSIVE int_to_bits_from(_, _)
int_to_bits_from(w, b) ==
    IF {c \in w : c >= b} = {} THEN <<>>
    ELSE IF b \in w THEN <<b>> \o int_to_bits_from(w, b + 1)
    ELSE int_to_bits_from(w, b + 1)

int_to_bits(w) == int_to_bits_from(w, 0)

\* mutant: the table indexed one row off, PHYS_Y_TO_NOC_0_Y[GRID_SIZE_Y - y - 2]
HarvestedRowOf_OffByOne(y) == PHYS_Y_TO_NOC_0_Y[(GRID_SIZE_Y - y - 2) + 1]

\* the row a bad physical row y disables: PHYS_Y_TO_NOC_0_Y[GRID_SIZE_Y - y - 1]
\* (Python lists are 0-based, TLA+ sequences 1-based)
HarvestedRowOf(y) == PHYS_Y_TO_NOC_0_Y[(GRID_SIZE_Y - y - 1) + 1]

\* get_harvested_rows, from the fuse value on
get_harvested_rows(harvesting_fuses) ==
    LET bad_mem_bits == harvesting_fuses \cap HARVEST_MASK
        bad_logic_bits == Shr(harvesting_fuses, 10) \cap HARVEST_MASK
        bad_row_bits == Shl(bad_mem_bits \cup bad_logic_bits, 1)
        bad_physical_rows == int_to_bits(bad_row_bits)
    IN  {HarvestedRowOf(bad_physical_rows[k]) : k \in 1..Len(bad_physical_rows)}

\* get_core_list: product of the columns 1..12 with the rows not harvested
get_core_list(rows) ==
    LET good_rows == {y \in TENSIX_ROWS : y \notin rows}
    IN  {<<x, y>> : x \in 1..(GRID_SIZE_X - 1), y \in good_rows}

-----------------------------------------------------------------------------
(* The device: mailbox calls and bus writes are recorded in bus_log in the *)
(* order they are issued; ok = FALSE marks a call that raised.             *)

Entry(op, name, n1, n2, n3, n4, v, ok) ==
    [op |-> op, a |-> <<name, n1, n2, n3, n4>>, v |-> v, ok |-> ok]

\* arc_msg(MSG_TYPE_ARC_GET_HARVESTING, wait_for_done=True, arg0=0, arg1=0)
GetHarvestingCall(ok) == Entry("arc_msg", "MSG_TYPE_ARC_GET_HARVESTING", 0, 0, 0, 0, {}, ok)

\* arc_msg(MSG_TYPE_RESET_SAFE_CLKS, wait_for_done=True, arg0=arg0, arg1=0)
SafeClksCall(arg0, ok) == Entry("arc_msg", "MSG_TYPE_RESET_SAFE_CLKS", arg0, 0, 0, 0, {}, ok)

\* axi_registers.write32(f"ARC_RESET.<reg>[{i}]", v): a whole 32-bit register, one bus write
ArcResetWrite(reg, i, v, ok) == Entry("write32", reg, i, 0, 0, 0, v, ok)

NocKey(noc_id, x, y, base, off) == <<"noc", noc_id, x, y, base, off>>

AxiKey(base, off) == <<"axi", 0, 0, 0, base, off>>

\* s = [n |-> the registers written since the step began, l |-> the calls
\* issued since it began]; a read sees the last write, else the register
Rd(s, k) ==
    IF k \in DOMAIN s.n THEN s.n[k]
    ELSE IF k \in DOMAIN noc THEN noc[k]
    ELSE noc_init

Wr(s, k, v) == [j \in (DOMAIN s.n) \cup {k} |-> IF j = k THEN v ELSE s.n[j]]

StepBegin == [n |-> <<>>, l |-> <<>>]

\* device.noc_write32(noc_id, x, y, base + off, v)
noc_write32(s, noc_id, x, y, base, off, v) ==
    [n |-> Wr(s, NocKey(noc_id, x, y, base, off), v),
     l |-> Append(s.l, Entry("noc_write32", base, noc_id, x, y, off, v, TRUE))]

\* device.noc_read32(noc_id, x, y, base + off)
noc_read32(s, noc_id, x, y, base, off) == Rd(s, NocKey(noc_id, x, y, base, off))

\* device.pci_axi_write32(base + off, v)
pci_axi_write32(s, base, off, v) ==
    [n |-> Wr(s, AxiKey(base, off), v),
     l |-> Append(s.l, Entry("pci_axi_write32", base, 0, 0, 0, off, v, TRUE))]

\* device.pci_axi_read32(base + off)
pci_axi_read32(s, base, off) == Rd(s, AxiKey(base, off))

-----------------------------------------------------------------------------
(* GSTensixReset.setup_noc *)

\* get_noc_router_cfg: the four broadcast-disable masks
broadcast_disabled_rows(rows) == {0, 6} \cup rows

noc0_router_cfg_1 == {0}

noc1_router_cfg_1 == {12}

noc0_router_cfg_3(rows) == broadcast_disabled_rows(rows)

\* mutant: the NOC1 row mask not mirrored
noc1_router_cfg_3_NoMirror(rows) == broadcast_disabled_rows(rows)

noc1_router_cfg_3(rows) == {GRID_SIZE_Y - y - 1 : y \in broadcast_disabled_rows(rows)}

\* setup_noc_by_xy.setup_noc_common: CG enable twice, then maximum backoff
setup_noc_common_xy(s, x, y, noc_id, base) ==
    LET s1 == noc_write32(s, noc_id, x, y, base, NIU_CFG_0,
                          noc_read32(s, noc_id, x, y, base, NIU_CFG_0) \cup {0})
        s2 == noc_write32(s1, noc_id, x, y, base, ROUTER_CFG_0,
                          noc_read32(s1, noc_id, x, y, base, ROUTER_CFG_0) \cup {0})
        s3 == noc_write32(s2, noc_id, x, y, base, ROUTER_CFG_0,
                          (noc_read32(s2, noc_id, x, y, base, ROUTER_CFG_0) \ Bits(8, 11))
                              \cup Shl(NOC_MAX_BACKOFF_EXP, 8))
    IN  s3

setup_noc_by_xy(s, x, y, base0, base1, rows) ==
    LET n1x == GRID_SIZE_X - x - 1
        n1y == GRID_SIZE_Y - y - 1
        s1 == noc_write32(s, 0, x, y, base0, ROUTER_CFG_1, noc0_router_cfg_1)
        s2 == noc_write32(s1, 0, x, y, base0, ROUTER_CFG_3, noc0_router_cfg_3(rows))
        s3 == noc_write32(s2, 1, n1x, n1y, base1, ROUTER_CFG_1, noc1_router_cfg_1)
        s4 == noc_write32(s3, 1, n1x, n1y, base1, ROUTER_CFG_3, noc1_router_cfg_3(rows))
        s5 == setup_noc_common_xy(s4, x, y, 0, base0)
    IN  setup_noc_common_xy(s5, n1x, n1y, 1, base1)

\* setup_noc_by_address.setup_noc_common: CG enable twice; the maximum-backoff
\* value is computed and its write is commented out (line 270)
setup_noc_common_addr(s, base) ==
    LET s1 == pci_axi_write32(s, base, NIU_CFG_0, pci_axi_read32(s, base, NIU_CFG_0) \cup {0})
        s2 == pci_axi_write32(s1, base, ROUTER_CFG_0, pci_axi_read32(s1, base, ROUTER_CFG_0) \cup {0})
    IN  s2

setup_noc_by_address(s, base0, base1, rows) ==
    LET s1 == pci_axi_write32(s, base0, ROUTER_CFG_1, noc0_router_cfg_1)
        s2 == pci_axi_write32(s1, base0, ROUTER_CFG_3, noc0_router_cfg_3(rows))
        s3 == pci_axi_write32(s2, base1, ROUTER_CFG_1, noc1_router_cfg_1)
        s4 == pci_axi_write32(s3, base1, ROUTER_CFG_3, noc1_router_cfg_3(rows))
        s5 == setup_noc_common_addr(s4, base0)
    IN  setup_noc_common_addr(s5, base1)

is_tensix_core_loc(cores, x, y) == <<x, y>> \in cores

\* mutant: the bit set for the cores of core_list, cleared for the others
tile_clock_disable_Inverted(s, noc_id, nx, ny, base, cores, x, y) ==
    noc_write32(s, noc_id, nx, ny, base, NIU_CFG_0,
                (noc_read32(s, noc_id, nx, ny, base, NIU_CFG_0) \ {12})
                    \cup (IF is_tensix_core_loc(cores, x, y) THEN {12} ELSE {}))

\* the tile clock disable bit of NIU_CFG_0 on one NOC: cleared, then set
\* unless (x, y) is in core_list
tile_clock_disable(s, noc_id, nx, ny, base, cores, x, y) ==
    noc_write32(s, noc_id, nx, ny, base, NIU_CFG_0,
                (noc_read32(s, noc_id, nx, ny, base, NIU_CFG_0) \ {12})
                    \cup (IF is_tensix_core_loc(cores, x, y) THEN {} ELSE {12}))

\* the body of setup_noc's loop for the NOC0 coordinate (x, y)
setup_noc_node(s, x, y, rows, cores) ==
    IF <<x, y>> \in DRAM_LOCATIONS THEN
        setup_noc_by_xy(s, x, y, "0xFFFF4000", "0xFFFF5000", rows)
    ELSE IF <<x, y>> \in ARC_LOCATIONS THEN
        setup_noc_by_address(s, "0x1FF50000", "0x1FF58000", rows)
    ELSE IF <<x, y>> \in PCI_LOCATIONS THEN
        setup_noc_by_address(s, "0x1FD00000", "0x1FD08000", rows)
    ELSE IF x = 0 \/ y = 0 \/ y = 6 THEN
        setup_noc_by_xy(s, x, y, "0xFFB20000", "0xFFB30000", rows)
    ELSE
        LET s1 == setup_noc_by_xy(s, x, y, "0xFFB20000", "0xFFB30000", rows)
            s2 == tile_clock_disable(s1, 0, x, y, "0xFFB20000", cores, x, y)
        IN  tile_clock_disable(s2, 1, GRID_SIZE_X - x - 1, GRID_SIZE_Y - y - 1,
                               "0xFFB30000", cores, x, y)

\* the first bus call the loop body makes for (x, y), marked as having raised
setup_noc_node_raises(x, y) ==
    IF <<x, y>> \in ARC_LOCATIONS THEN
        Entry("pci_axi_write32", "0x1FF50000", 0, 0, 0, ROUTER_CFG_1, noc0_router_cfg_1, FALSE)
    ELSE IF <<x, y>> \in PCI_LOCATIONS THEN
        Entry("pci_axi_write32", "0x1FD00000", 0, 0, 0, ROUTER_CFG_1, noc0_router_cfg_1, FALSE)
    ELSE IF <<x, y>> \in DRAM_LOCATIONS THEN
        Entry("noc_write32", "0xFFFF4000", 0, x, y, ROUTER_CFG_1, noc0_router_cfg_1, FALSE)
    ELSE
        Entry("noc_write32", "0xFFB20000", 0, x, y, ROUTER_CFG_1, noc0_router_cfg_1, FALSE)

-----------------------------------------------------------------------------
(* GSTensixReset: soft reset broadcast and the deassert masks *)

\* BRISC_SOFT_RESET | TRISC_SOFT_RESETS | NCRISC_SOFT_RESET
SOFT_RESET_WORD == {11} \cup {12, 13, 14} \cup {18}

SoftResetBroadcast(ok) ==
    Entry("noc_broadcast32", "0xFFB121B0", 0, 0, 0, 0, SOFT_RESET_WORD, ok)

_physical_to_routing(limit, phys) ==
    IF phys % 2 = 0 THEN phys \div 2 ELSE limit - 1 - (phys \div 2)

\* ROUTING_TO_PHYSICAL_TABLE[(rout_x, rout_y)]: the last (phys_x, phys_y) the
\* constructor's loops store under that key
Max(S) == CHOOSE m \in S : \A n \in S : n <= m

ROUTING_TO_PHYSICAL_TABLE(rout_x, rout_y) ==
    <<Max({p \in 0..(GRID_SIZE_X - 1) : _physical_to_routing(GRID_SIZE_X, p) = rout_x}),
      Max({p \in 0..(GRID_SIZE_Y - 1) : _physical_to_routing(GRID_SIZE_Y, p) = rout_y})>>

\* mutant: the row stride is the grid width, blue_x * GRID_SIZE_X + blue_y
reset_bit_index_GridStride(noc_x, noc_y) ==
    LET phys == ROUTING_TO_PHYSICAL_TABLE(noc_x, noc_y)
        blue_x == phys[1] - 1
        blue_y == phys[2] - 1
    IN  blue_x * GRID_SIZE_X + blue_y

reset_bit_index(noc_x, noc_y) ==
    LET phys == ROUTING_TO_PHYSICAL_TABLE(noc_x, noc_y)
        blue_x == phys[1] - 1
        blue_y == phys[2] - 1
    IN  blue_x * NUM_TENSIX_X + blue_y

\* noc_loc_to_reset_mask: (reset_reg_index, reset_bit_mask)
noc_loc_to_reset_mask(noc_x, noc_y) ==
    <<reset_bit_index(noc_x, noc_y) \div 32, {reset_bit_index(noc_x, noc_y) % 32}>>

\* all_tensix_reset_mask: word index (0-based) -> OR of the masks of the cores
all_tensix_reset_mask(cores) ==
    [index \in 0..7 |->
        UNION {noc_loc_to_reset_mask(c[1], c[2])[2] :
                 c \in {d \in cores : noc_loc_to_reset_mask(d[1], d[2])[1] = index}}]

-----------------------------------------------------------------------------
(* GSTensixReset.__init__ and tensix_reset, one action per bus call (one   *)
(* per grid node inside setup_noc).  Every call into the device may raise. *)

\* mutant: the constructor takes the rows without the mailbox call
Construct_NoMailbox ==
    /\ gs_pc = "new"
    /\ harvested_rows' = get_harvested_rows(fuse)
    /\ core_list' = get_core_list(get_harvested_rows(fuse))
    /\ gs_pc' = "ready"
    /\ UNCHANGED <<notGs, gs_i, fuse, override, noc, noc_init, bus_log, gs_exc>>

\* __init__: get_harvested_rows, then get_core_list
Construct ==
    /\ gs_pc = "new"
    /\ \/ /\ override
          /\ harvested_rows' = get_harvested_rows(fuse)
          /\ core_list' = get_core_list(get_harvested_rows(fuse))
          /\ gs_pc' = "ready"
          /\ UNCHANGED <<bus_log, gs_exc>>
       \/ /\ ~override
          /\ \E exit_code \in {0, 1} :
                /\ bus_log' = Append(bus_log, GetHarvestingCall(TRUE))
                /\ IF exit_code # 0
                   THEN /\ gs_pc' = "init_failed"
                        /\ gs_exc' = TRUE
                        /\ UNCHANGED <<harvested_rows, core_list>>
                   ELSE /\ harvested_rows' = get_harvested_rows(fuse)
                        /\ core_list' = get_core_list(get_harvested_rows(fuse))
                        /\ gs_pc' = "ready"
                        /\ UNCHANGED gs_exc
       \/ /\ ~override
          /\ bus_log' = Append(bus_log, GetHarvestingCall(FALSE))
          /\ gs_pc' = "init_failed"
          /\ gs_exc' = TRUE
          /\ UNCHANGED <<harvested_rows, core_list>>
    /\ UNCHANGED <<notGs, gs_i, fuse, override, noc, noc_init>>

\* mutant: no finally block, the exception leaves tensix_reset at once
RaiseInTry_NoFinally(entry) ==
    /\ bus_log' = Append(bus_log, entry)
    /\ gs_pc' = "done"
    /\ gs_i' = 0
    /\ gs_exc' = TRUE
    /\ UNCHANGED <<notGs, fuse, override, harvested_rows, core_list, noc, noc_init>>

\* a call inside the try block raises: the rest of the block is skipped
RaiseInTry(entry) ==
    /\ bus_log' = Append(bus_log, entry)
    /\ gs_pc' = "finally"
    /\ gs_i' = 0
    /\ gs_exc' = TRUE
    /\ UNCHANGED <<notGs, fuse, override, harvested_rows, core_list, noc, noc_init>>

\* mutant: the loop leaves after 7 of the 8 words
ArcResetLoop_EarlyExit(reg, v, next) ==
    /\ bus_log' = Append(bus_log, ArcResetWrite(reg, gs_i, v, TRUE))
    /\ IF gs_i + 1 < 7
       THEN gs_i' = gs_i + 1 /\ UNCHANGED gs_pc
       ELSE gs_i' = 0 /\ gs_pc' = next
    /\ UNCHANGED <<notGs, fuse, override, harvested_rows, core_list, noc, noc_init, gs_exc>>

\* a loop of 8 register writes: write word gs_i, then go on or leave the loop
ArcResetLoop(reg, v, next) ==
    \/ /\ bus_log' = Append(bus_log, ArcResetWrite(reg, gs_i, v, TRUE))
       /\ IF gs_i + 1 < 8
          THEN gs_i' = gs_i + 1 /\ UNCHANGED gs_pc
          ELSE gs_i' = 0 /\ gs_pc' = next
       /\ UNCHANGED <<notGs, fuse, override, harvested_rows, core_list, noc, noc_init, gs_exc>>
    \/ RaiseInTry(ArcResetWrite(reg, gs_i, v, FALSE))

\* self.set_safe_clks(True), before the try block
EnterSafeClks ==
    /\ gs_pc = "ready"
    /\ \/ /\ bus_log' = Append(bus_log, SafeClksCall(1, TRUE))
          /\ gs_pc' = "assert_hard"
          /\ UNCHANGED gs_exc
       \/ /\ bus_log' = Append(bus_log, SafeClksCall(1, FALSE))
          /\ gs_pc' = "done"
          /\ gs_exc' = TRUE
    /\ UNCHANGED <<notGs, gs_i, fuse, override, harvested_rows, core_list, noc, noc_init>>

all_riscs_assert_hard_reset ==
    /\ gs_pc = "assert_hard"
    /\ ArcResetLoop("ARC_RESET.RISCV_RESET", {}, "toggle_low")

tensix_toggle_reset_low ==
    /\ gs_pc = "toggle_low"
    /\ ArcResetLoop("ARC_RESET.TENSIX_RESET", {}, "toggle_high")

tensix_toggle_reset_high ==
    /\ gs_pc = "toggle_high"
    /\ ArcResetLoop("ARC_RESET.TENSIX_RESET", WORD32, "noc_ddr")

\* setup_noc: write_fields("ARC_RESET.DDR_RESET", {"axi_reset": 1, "ddrc_reset": 1}, init=0)
DdrResetWrite(ok) == Entry("write_fields", "ARC_RESET.DDR_RESET", 0, 0, 0, 0, {}, ok)

setup_noc_ddr ==
    /\ gs_pc = "noc_ddr"
    /\ \/ /\ bus_log' = Append(bus_log, DdrResetWrite(TRUE))
          /\ gs_pc' = "noc_node"
          /\ gs_i' = 0
          /\ UNCHANGED <<notGs, fuse, override, harvested_rows, core_list, noc, noc_init, gs_exc>>
       \/ RaiseInTry(DdrResetWrite(FALSE))

\* setup_noc: the loop body for node gs_i, y outer and x inner
setup_noc_loop ==
    /\ gs_pc = "noc_node"
    /\ LET x == gs_i % GRID_SIZE_X
           y == gs_i \div GRID_SIZE_X
           s == setup_noc_node(StepBegin, x, y, harvested_rows, core_list)
       IN  \/ /\ noc' = s.n @@ noc
              /\ bus_log' = bus_log \o s.l
              /\ IF gs_i + 1 < GRID_SIZE_X * GRID_SIZE_Y
                 THEN gs_i' = gs_i + 1 /\ UNCHANGED gs_pc
                 ELSE gs_i' = 0 /\ gs_pc' = "soft_reset"
              /\ UNCHANGED <<notGs, fuse, override, harvested_rows, core_list, noc_init, gs_exc>>
           \/ RaiseInTry(setup_noc_node_raises(x, y))

assert_all_riscv_soft_reset ==
    /\ gs_pc = "soft_reset"
    /\ \/ /\ bus_log' = Append(bus_log, SoftResetBroadcast(TRUE))
          /\ gs_pc' = "deassert"
          /\ gs_i' = 0
          /\ UNCHANGED <<notGs, fuse, override, harvested_rows, core_list, noc, noc_init, gs_exc>>
       \/ RaiseInTry(SoftResetBroadcast(FALSE))

all_riscs_deassert_hard_reset ==
    /\ gs_pc = "deassert"
    /\ ArcResetLoop("ARC_RESET.RISCV_RESET", all_tensix_reset_mask(core_list)[gs_i], "finally")

\* the finally block: self.set_safe_clks(False); a pending exception goes on
\* propagating, and one raised here propagates as well
ExitSafeClks ==
    /\ gs_pc = "finally"
    /\ \E ok \in BOOLEAN :
          /\ bus_log' = Append(bus_log, SafeClksCall(0, ok))
          /\ gs_exc' = (gs_exc \/ ~ok)
    /\ gs_pc' = "done"
    /\ UNCHANGED <<notGs, gs_i, fuse, override, harvested_rows, core_list, noc, noc_init>>

tensix_reset ==
    \/ EnterSafeClks
    \/ all_riscs_assert_hard_reset
    \/ tensix_toggle_reset_low
    \/ tensix_toggle_reset_high
    \/ setup_noc_ddr
    \/ setup_noc_loop
    \/ assert_all_riscv_soft_reset
    \/ all_riscs_deassert_hard_reset
    \/ ExitSafeClks

-----------------------------------------------------------------------------
(* Specifications of the reset sequencer *)

\* 0x3FF has 10 bits; the fuse value has a memory and a logic group of them
LogicSamples == {{}, {0}, {9}, {0, 9}, {1, 3, 5, 7}, Bits(0, 9)}

\* fuse values beyond 20 bits too: the masks drop the upper bits
FuseOf(mem, logic, upper) == mem \cup Shl(logic, 10) \cup upper

GsInitCommon ==
    /\ gs_pc = "new"
    /\ gs_i = 0
    /\ harvested_rows = {}
    /\ core_list = {}
    /\ bus_log = <<>>
    /\ noc = <<>>
    /\ gs_exc = FALSE

\* get_harvested_rows / get_core_list over the fuse values
InitHarvest ==
    /\ GsOnly
    /\ GsInitCommon
    /\ \E mem \in SUBSET Bits(0, 9), logic \in LogicSamples, upper \in {{}, {20, 31}} :
          fuse = FuseOf(mem, logic, upper)
    /\ override \in BOOLEAN
    /\ noc_init = {}

SpecHarvest == InitHarvest /\ [][Construct]_vars

FuseSamples == {{}, {3, 13}, {0, 2, 4, 16, 18}, Bits(0, 19)}

RegSamples == {{}, {0, 9, 12, 31}, WORD32}

InitReset ==
    /\ GsOnly
    /\ GsInitCommon
    /\ fuse \in FuseSamples
    /\ override \in BOOLEAN
    /\ noc_init \in RegSamples

NextReset == Construct \/ tensix_reset

SpecReset == InitReset /\ [][NextReset]_vars

-----------------------------------------------------------------------------
(* Registers (registers.py).  The register schema comes from yaml files;   *)
(* the one below has a 32-bit and a 64-bit address space, an array         *)
(* register, fields inside a word, fields of a 64-bit register above bit   *)
(* 31, and fields with a byte offset (a field_info of more than 4 items).  *)
(* A field_info is <<_, msb, lsb, offset, ...>>: Python's field_info[1] is *)
(* the msb, field_info[2] the lsb, field_info[3] the offset.               *)

NoIndex == 0 - 1

addr_space_map ==
    [S32 |-> [offset |-> 16, Regsize |-> 32,
              loaded_yaml |->
                [CTRL |-> [Address |-> 0, ArraySize |-> 0, AddressIncrement |-> 0,
                           Fields |-> [en |-> <<0, 0, 0, 0>>, mode |-> <<0, 3, 1, 0>>,
                                       rsvd |-> <<0, 27, 4, 0>>, top |-> <<0, 31, 28, 0>>]],
                 ARR |-> [Address |-> 8, ArraySize |-> 2, AddressIncrement |-> 4,
                          Fields |-> [val |-> <<0, 31, 0, 0>>]]]],
     S64 |-> [offset |-> 64, Regsize |-> 64,
              loaded_yaml |->
                [WIDE |-> [Address |-> 0, ArraySize |-> 0, AddressIncrement |-> 0,
                           Fields |-> [lo |-> <<0, 15, 0, 0>>, mid |-> <<0, 35, 28, 0>>,
                                       up |-> <<0, 63, 60, 0>>]],
                 SPLIT |-> [Address |-> 8, ArraySize |-> 0, AddressIncrement |-> 0,
                            Fields |-> [low |-> <<0, 31, 0, 0, 0>>,
                                        high |-> <<0, 31, 0, 4, 0>>]]]]]

\* the bus addresses behind the schema, one 32-bit word each
BusAddrs == {16, 24, 28, 64, 68, 72, 76}

Path(space, reg, idx, field) == [space |-> space, reg |-> reg, idx |-> idx, field |-> field]

get_mask_for_regsize(regsize) == Bits(0, regsize - 1)

\* (mask, shift) of a field: the register mask shifted right by regsize - 1 - (msb - lsb)
get_mask_and_shift(field_info, regsize) ==
    LET msb == field_info[2]
        lsb == field_info[3]
    IN  <<Shr(get_mask_for_regsize(regsize), regsize - 1 - (msb - lsb)), lsb>>

Raised == [raised |-> TRUE]

\* get_path_info(path) for a path with a register: (addr, mask, shift, reg_info)
get_path_info(path) ==
    LET addr_space == addr_space_map[path.space]
        array_index == IF path.idx # NoIndex THEN path.idx ELSE 0
    IN  IF path.reg \notin DOMAIN addr_space.loaded_yaml THEN Raised
        ELSE
        LET reg_info == addr_space.loaded_yaml[path.reg]
            regsize == addr_space.Regsize
            has_field == path.field # ""
        IN  IF has_field /\ path.field \notin DOMAIN reg_info.Fields THEN Raised
            ELSE IF array_index > 0 /\ array_index >= reg_info.ArraySize THEN Raised
            ELSE
            LET ms == IF has_field
                      THEN get_mask_and_shift(reg_info.Fields[path.field], regsize)
                      ELSE <<get_mask_for_regsize(regsize), 0>>
                offset == IF has_field /\ Len(reg_info.Fields[path.field]) > 4
                          THEN reg_info.Fields[path.field][4] ELSE 0
                addr == addr_space.offset + reg_info.Address
                            + (IF array_index > 0 THEN array_index * reg_info.AddressIncrement ELSE 0)
                            + offset
            IN  [raised |-> FALSE, addr |-> addr, mask |-> ms[1], shift |-> ms[2],
                 Regsize |-> regsize, Fields |-> reg_info.Fields]

\* one step of a call: c = [bus, log, raised]
CallBegin(b) == [bus |-> b, log |-> <<>>, raised |-> FALSE]

\* self.read_function(addr): one 32-bit word
read_function(c, addr) == c.bus[addr]

LogRead(c, addr) == [c EXCEPT !.log = Append(c.log, <<"read", addr>>)]

\* self.write_function(addr, v).  The injected writer takes a 32-bit value;
\* given a wider one it keeps the low 32 bits or raises (wide says which).
write_function(c, addr, v, wide) ==
    IF c.raised THEN c
    ELSE IF v \subseteq WORD32 THEN
        [c EXCEPT !.bus = [c.bus EXCEPT ![addr] = v], !.log = Append(c.log, <<"write", addr>>)]
    ELSE IF wide = "truncate" THEN
        [c EXCEPT !.bus = [c.bus EXCEPT ![addr] = v \cap WORD32],
                  !.log = Append(c.log, <<"write", addr>>)]
    ELSE [c EXCEPT !.raised = TRUE, !.log = Append(c.log, <<"write", addr>>)]

\* Registers.read32(path): [raised, result, bus, log]
read32(b, path) ==
    LET pi == get_path_info(path)
        c == CallBegin(b)
    IN  IF pi.raised THEN [raised |-> TRUE, result |-> {}, bus |-> b, log |-> <<>>]
        ELSE [raised |-> FALSE,
              result |-> Shr(read_function(c, pi.addr), pi.shift) \cap pi.mask,
              bus |-> b,
              log |-> LogRead(c, pi.addr).log]

\* mutant: the value is masked into the field instead of being refused
write32_Truncating(b, path, data, wide) ==
    LET pi == get_path_info(path)
        c == CallBegin(b)
    IN  IF pi.raised THEN [raised |-> TRUE, result |-> {}, bus |-> b, log |-> <<>>]
        ELSE
        LET rmw == pi.mask # get_mask_for_regsize(pi.Regsize)
            current_val == read_function(c, pi.addr) \ Shl(pi.mask, pi.shift)
            new_val == IF rmw THEN current_val \cup Shl(data \cap pi.mask, pi.shift)
                       ELSE data \cap pi.mask
            c1 == IF rmw THEN LogRead(c, pi.addr) ELSE c
            c2 == write_function(c1, pi.addr, new_val, wide)
        IN  [raised |-> c2.raised, result |-> {}, bus |-> c2.bus, log |-> c2.log]

\* Registers.write32(path, data)
write32(b, path, data, wide) ==
    LET pi == get_path_info(path)
        c == CallBegin(b)
    IN  IF pi.raised THEN [raised |-> TRUE, result |-> {}, bus |-> b, log |-> <<>>]
        ELSE IF data \ pi.mask # {} THEN [raised |-> TRUE, result |-> {}, bus |-> b, log |-> <<>>]
        ELSE
        LET rmw == pi.mask # get_mask_for_regsize(pi.Regsize)
            current_val == read_function(c, pi.addr) \ Shl(pi.mask, pi.shift)
            new_val == IF rmw THEN current_val \cup Shl(data, pi.shift) ELSE data
            c1 == IF rmw THEN LogRead(c, pi.addr) ELSE c
            c2 == write_function(c1, pi.addr, new_val, wide)
        IN  [raised |-> c2.raised, result |-> {}, bus |-> c2.bus, log |-> c2.log]

\* the loop of write_fields over the (name, value) pairs of the dictionary,
\* from pair k on: [raised, new_val, total_mask]
RECURSIVE write_fields_loop(_, _, _, _, _, _)
write_fields_loop(Fields, regsize, fields, k, new_val, total_mask) ==
    IF k > Len(fields) THEN [raised |-> FALSE, new_val |-> new_val, total_mask |-> total_mask]
    ELSE
    LET f == fields[k][1]
        value == fields[k][2]
    IN  IF f \notin DOMAIN Fields THEN [raised |-> TRUE, new_val |-> new_val, total_mask |-> total_mask]
        ELSE
        LET ms == get_mask_and_shift(Fields[f], regsize)
            cleared == new_val \ Shl(ms[1], ms[2])
        IN  IF value \cap ms[1] # value
            THEN [raised |-> TRUE, new_val |-> cleared, total_mask |-> total_mask]
            ELSE write_fields_loop(Fields, regsize, fields, k + 1,
                                   cleared \cup Shl(value, ms[2]),
                                   total_mask \cup Shl(ms[1], ms[2]))

\* mutant: the check of total_mask against FULL_REG_MASK is left out
write_fields_NoCoverageCheck(b, path, fields, init, wide) ==
    LET pi == get_path_info(path)
        c == CallBegin(b)
    IN  IF pi.raised THEN [raised |-> TRUE, result |-> {}, bus |-> b, log |-> <<>>]
        ELSE
        LET r == write_fields_loop(pi.Fields, pi.Regsize, fields, 1,
                                   IF init.given THEN init.v ELSE {},
                                   IF init.given THEN get_mask_for_regsize(pi.Regsize) ELSE {})
        IN  IF r.raised
            THEN [raised |-> TRUE, result |-> {}, bus |-> b, log |-> <<>>]
            ELSE
            LET c1 == IF pi.Regsize = 32
                      THEN write_function(c, pi.addr, r.new_val, wide)
                      ELSE write_function(
                               write_function(c, pi.addr, r.new_val \cap WORD32, wide),
                               pi.addr + 4, Shr(r.new_val, 32) \cap WORD32, wide)
            IN  [raised |-> c1.raised, result |-> {}, bus |-> c1.bus, log |-> c1.log]

\* Registers.write_fields(path, fields, init); init = [given, v]
write_fields(b, path, fields, init, wide) ==
    LET pi == get_path_info(path)
        c == CallBegin(b)
    IN  IF pi.raised THEN [raised |-> TRUE, result |-> {}, bus |-> b, log |-> <<>>]
        ELSE
        LET FULL_REG_MASK == get_mask_for_regsize(pi.Regsize)
            r == write_fields_loop(pi.Fields, pi.Regsize, fields, 1,
                                   IF init.given THEN init.v ELSE {},
                                   IF init.given THEN FULL_REG_MASK ELSE {})
        IN  IF r.raised \/ r.total_mask # FULL_REG_MASK
            THEN [raised |-> TRUE, result |-> {}, bus |-> b, log |-> <<>>]
            ELSE
            LET c1 == IF pi.Regsize = 32
                      THEN write_function(c, pi.addr, r.new_val, wide)
                      ELSE write_function(
                               write_function(c, pi.addr, r.new_val \cap WORD32, wide),
                               pi.addr + 4, Shr(r.new_val, 32) \cap WORD32, wide)
            IN  [raised |-> c1.raised, result |-> {}, bus |-> c1.bus, log |-> c1.log]

\* the loop of rmw_fields over a register whose fields are separate words:
\* self.write32(f"{path}.{f}", fields[f]) for pair k on, one after the other
\* (r, the outcome of the write32 call, is bound once)
RECURSIVE rmw_fields_loop(_, _, _, _, _, _)
rmw_fields_loop(b, path, fields, k, log, wide) ==
    IF k > Len(fields) THEN [raised |-> FALSE, result |-> {}, bus |-> b, log |-> log]
    ELSE
    CHOOSE out \in
        {IF r.raised THEN [raised |-> TRUE, result |-> {}, bus |-> r.bus, log |-> log \o r.log]
         ELSE rmw_fields_loop(r.bus, path, fields, k + 1, log \o r.log, wide) :
            r \in {write32(b, [path EXCEPT !.field = fields[k][1]], fields[k][2], wide)}} : TRUE

\* the else branch of rmw_fields: read32(path), the upper word of a 64-bit
\* register, then write_fields with init = current_reg_value
rmw_fields_whole(b, path, fields, wide, pi, low) ==
    LET current_reg_value ==
            IF pi.Regsize = 64
            THEN low.result \cup Shl(read_function(CallBegin(b), pi.addr + 4), 32)
            ELSE low.result
        reads == IF pi.Regsize = 64
                 THEN Append(low.log, <<"read", pi.addr + 4>>) ELSE low.log
    IN  CHOOSE out \in
            {[raised |-> w.raised,
              result |-> IF w.raised THEN {} ELSE current_reg_value,
              bus |-> w.bus,
              log |-> reads \o w.log] :
                w \in {write_fields(b, path, fields,
                                    [given |-> TRUE, v |-> current_reg_value], wide)}} : TRUE

\* Registers.rmw_fields(path, fields).  The test for multi-register fields
\* looks at the first field of the register; in the schema here the fields
\* of one register all have a byte offset or none has.
rmw_fields(b, path, fields, wide) ==
    CHOOSE out \in
        {IF pi.raised THEN [raised |-> TRUE, result |-> {}, bus |-> b, log |-> <<>>]
         ELSE IF Len(pi.Fields[CHOOSE f \in DOMAIN pi.Fields : TRUE]) > 4
         THEN rmw_fields_loop(b, path, fields, 1, <<>>, wide)
         ELSE CHOOSE o \in {rmw_fields_whole(b, path, fields, wide, pi, low) :
                               low \in {read32(b, path)}} : TRUE :
            pi \in {get_path_info(path)}} : TRUE

-----------------------------------------------------------------------------
(* Registers: calls made one after the other on one bus *)

MaxRegCalls == 2

RegPaths ==
    {Path("S32", "CTRL", NoIndex, ""), Path("S32", "CTRL", NoIndex, "mode"),
     Path("S32", "ARR", 1, ""),
     Path("S32", "ARR", 2, ""), Path("S64", "WIDE", NoIndex, ""),
     Path("S64", "WIDE", NoIndex, "lo"), Path("S64", "WIDE", NoIndex, "mid"),
     Path("S64", "SPLIT", NoIndex, "high")}

RegData == {{}, {0, 2}, WORD32, {32}, Bits(0, 63)}

FieldsArgs ==
    {<<Path("S32", "CTRL", NoIndex, ""), <<<<"en", {0}>>, <<"mode", {1}>>, <<"rsvd", {}>>, <<"top", {3}>>>>>>,
     <<Path("S32", "CTRL", NoIndex, ""), <<<<"en", {0}>>, <<"mode", {3}>>, <<"rsvd", {}>>, <<"top", {3}>>>>>>,
     <<Path("S32", "CTRL", NoIndex, ""), <<<<"mode", {0, 1}>>>>>>,
     <<Path("S32", "CTRL", NoIndex, ""), <<<<"mode", {0, 1}>>, <<"top", {4}>>>>>>,
     <<Path("S64", "WIDE", NoIndex, ""), <<<<"mid", {0, 7}>>, <<"up", {1}>>>>>>,
     <<Path("S64", "WIDE", NoIndex, ""), <<<<"lo", {0, 3}>>, <<"mid", {0, 7}>>, <<"up", {1}>>>>>>,
     <<Path("S64", "WIDE", NoIndex, ""), <<<<"lo", {16}>>>>>>,
     <<Path("S64", "SPLIT", NoIndex, ""), <<<<"low", {0}>>, <<"high", {32}>>>>>>}

InitArgs == {[given |-> FALSE, v |-> {}], [given |-> TRUE, v |-> {}], [given |-> TRUE, v |-> {0, 5, 31}]}

Call(op, path, data, fields, init, r) ==
    [op |-> op, path |-> path, data |-> data, fields |-> fields, init |-> init,
     raised |-> r.raised, result |-> r.result, log |-> r.log, before |-> bus]

Made(call, r) ==
    /\ reg_n < MaxRegCalls
    /\ reg_n' = reg_n + 1
    /\ reg_prev' = reg_last
    /\ reg_last' = call
    /\ bus' = r.bus
    /\ UNCHANGED <<notReg, writer>>

DoWrite32 ==
    \E path \in RegPaths, data \in RegData :
        LET r == write32(bus, path, data, writer)
        IN  Made(Call("write32", path, data, <<>>, <<>>, r), r)

DoRead32 ==
    \E path \in RegPaths :
        LET r == read32(bus, path)
        IN  Made(Call("read32", path, {}, <<>>, <<>>, r), r)

DoWriteFields ==
    \E fa \in FieldsArgs, init \in InitArgs :
        LET r == write_fields(bus, fa[1], fa[2], init, writer)
        IN  Made(Call("write_fields", fa[1], {}, fa[2], init, r), r)

RmwArgs ==
    {<<Path("S64", "SPLIT", NoIndex, ""), <<<<"low", {0, 2}>>, <<"high", {1}>>>>>>,
     <<Path("S64", "SPLIT", NoIndex, ""), <<<<"low", {0, 2}>>, <<"high", {32}>>>>>>,
     <<Path("S64", "SPLIT", NoIndex, ""), <<<<"low", {0, 2}>>, <<"bogus", {}>>>>>>,
     <<Path("S64", "SPLIT", NoIndex, ""), <<<<"low", {32}>>, <<"high", {1}>>>>>>,
     <<Path("S32", "CTRL", NoIndex, ""), <<<<"mode", {0, 1}>>>>>>,
     <<Path("S32", "CTRL", NoIndex, ""), <<<<"mode", {0, 1}>>, <<"top", {4}>>>>>>,
     <<Path("S32", "CTRL", NoIndex, ""), <<<<"mode", {0}>>, <<"bogus", {}>>>>>>,
     <<Path("S64", "WIDE", NoIndex, ""), <<<<"lo", {0, 3}>>, <<"mid", {8}>>>>>>}

DoRmwFields ==
    \E fa \in RmwArgs :
        \E r \in {rmw_fields(bus, fa[1], fa[2], writer)} :
            Made(Call("rmw_fields", fa[1], {}, fa[2], <<>>, r), r)

BusSamples == {{}, {1, 2, 30, 31}}

InitReg ==
    /\ RegOnly
    /\ \E w \in BusSamples : bus = [a \in BusAddrs |-> w]
    /\ writer \in {"truncate", "raise"}
    /\ reg_last = NoCall
    /\ reg_prev = NoCall
    /\ reg_n = 0

NextReg == DoWrite32 \/ DoRead32 \/ DoWriteFields

SpecReg == InitReg /\ [][NextReg]_vars

\* the batch calls, write_fields and rmw_fields, one after the other on one bus
NextRmw == DoWriteFields \/ DoRmwFields

SpecRmw == InitReg /\ [][NextRmw]_vars

(***************************************************************************)
(* Registers.load_address_space_map and Registers.sanity_check             *)
(* (registers.py).  A schema file lists address spaces in file order; each *)
(* space names a register definition file.  Registers.cached_registers is  *)
(* a class attribute: it lives as long as the process and is shared by     *)
(* every Registers object.                                                 *)
(***************************************************************************)
MaxLoads == 4

\* register definition files as yaml_load returns them
RegdefGood32 ==
    [has_Regsize |-> TRUE, Regsize |-> 32,
     regs |-> [CTRL |-> [Fields |-> [en |-> <<0, 0, 0>>, mode |-> <<0, 3, 1>>]],
               RAW  |-> [Address |-> 8]]]

RegdefGood64 ==
    [has_Regsize |-> TRUE, Regsize |-> 64,
     regs |-> [WIDE |-> [Fields |-> [lo |-> <<0, 15, 0>>, up |-> <<0, 63, 60>>]]]]

RegdefBadField ==
    [has_Regsize |-> TRUE, Regsize |-> 32,
     regs |-> [CTRL |-> [Fields |-> [en |-> <<0, 0, 0>>, mode |-> <<0, 1, 3>>]]]]

RegdefNoRegsize ==
    [has_Regsize |-> FALSE, Regsize |-> 0,
     regs |-> [CTRL |-> [Fields |-> [en |-> <<0, 0, 0>>]]]]

\* the schema files package_data_file can open, as yaml_load returns them:
\* the address spaces in file order, "offset" optional
SchemaFiles ==
    [good_yaml      |-> << [name |-> "A", has_offset |-> TRUE,  offset |-> 16, regdef |-> RegdefGood32],
                           [name |-> "B", has_offset |-> FALSE, offset |-> 0,  regdef |-> RegdefGood64] >>,
     bad_field_yaml |-> << [name |-> "A", has_offset |-> FALSE, offset |-> 0,  regdef |-> RegdefBadField] >>,
     late_bad_field_yaml |->
                        << [name |-> "A", has_offset |-> TRUE,  offset |-> 16, regdef |-> RegdefGood32],
                           [name |-> "B", has_offset |-> TRUE,  offset |-> 64, regdef |-> RegdefBadField] >>,
     late_no_regsize_yaml |->
                        << [name |-> "A", has_offset |-> TRUE,  offset |-> 16, regdef |-> RegdefGood32],
                           [name |-> "B", has_offset |-> TRUE,  offset |-> 64, regdef |-> RegdefNoRegsize],
                           [name |-> "C", has_offset |-> FALSE, offset |-> 0,  regdef |-> RegdefGood64] >>,
     no_regsize_yaml |-> << [name |-> "A", has_offset |-> TRUE, offset |-> 16, regdef |-> RegdefNoRegsize] >>]

\* the paths a load is asked for; missing_yaml is not a file of the package
Filenames == DOMAIN SchemaFiles \cup {"missing_yaml"}

\* sanity_check: TRUE when it returns, FALSE when it raises RuntimeError
sanity_check(loaded_yaml) ==
    \A rname \in DOMAIN loaded_yaml.regs :
        LET r == loaded_yaml.regs[rname] IN
        "Fields" \in DOMAIN r =>
            \A fname \in DOMAIN r.Fields :
                LET field_info == r.Fields[fname]
                    msb == field_info[2]
                    lsb == field_info[3]
                IN  ~(msb < lsb)

\* self.addr_space_map right after yaml_load of the schema file: no space
\* has a "loaded_yaml" key yet
FreshMap(filename) ==
    [k \in DOMAIN SchemaFiles[filename] |->
        LET sp == SchemaFiles[filename][k] IN
        [name |-> sp.name, has_offset |-> sp.has_offset, offset |-> sp.offset,
         loaded_yaml |-> "unset", yaml |-> RegdefNoRegsize]]

\* the Regsize stamped into every register of the file (lines 182-186)
StampRegsize(regdef) ==
    [regdef EXCEPT !.regs =
        [rname \in DOMAIN regdef.regs |->
            [key \in DOMAIN regdef.regs[rname] \cup {"Regsize"} |->
                IF key = "Regsize" THEN regdef.Regsize ELSE regdef.regs[rname][key]]]]

\* the loop over the address spaces from space k on.  map is
\* self.addr_space_map; cached says whether Registers.cached_registers
\* already refers to that same object (line 189 of an earlier iteration), in
\* which case every later change of the map is a change of the cache entry.
\* Line 189 runs before sanity_check of the same iteration.
RECURSIVE load_spaces(_, _, _, _)
load_spaces(filename, k, map, cached) ==
    IF k > Len(map)
    THEN [raised |-> "", map |-> map, cached |-> cached]
    ELSE
        LET m1 == [map EXCEPT ![k].has_offset = TRUE,
                              ![k].offset = IF map[k].has_offset THEN map[k].offset ELSE 0,
                              ![k].loaded_yaml = "empty"]
            loaded_yaml == SchemaFiles[filename][k].regdef
        IN
        IF ~loaded_yaml.has_Regsize
        THEN [raised |-> "Regsize not in file", map |-> m1, cached |-> cached]
        ELSE
            LET m2 == [m1 EXCEPT ![k].loaded_yaml = "loaded",
                                 ![k].yaml = StampRegsize(loaded_yaml)]
            IN
            IF ~sanity_check(m2[k].yaml)
            THEN [raised |-> "msb < lsb", map |-> m2, cached |-> TRUE]
            ELSE load_spaces(filename, k + 1, m2, TRUE)

\* Registers(filename, reader, writer): __init__ and load_address_space_map
load_address_space_map(filename) ==
    /\ ld_n < MaxLoads
    /\ ld_n' = ld_n + 1
    /\ IF filename \in DOMAIN cached_registers
       THEN /\ ld_last' = [op |-> "load", filename |-> filename, raised |-> "",
                           from_cache |-> TRUE,
                           addr_space_map |-> cached_registers[filename]]
            /\ UNCHANGED cached_registers
       ELSE IF filename \notin DOMAIN SchemaFiles
       THEN /\ ld_last' = [op |-> "load", filename |-> filename,
                           raised |-> "FileNotFoundError", from_cache |-> FALSE,
                           addr_space_map |-> <<>>]
            /\ UNCHANGED cached_registers
       ELSE LET r == load_spaces(filename, 1, FreshMap(filename), FALSE) IN
            /\ ld_last' = [op |-> "load", filename |-> filename, raised |-> r.raised,
                           from_cache |-> FALSE, addr_space_map |-> r.map]
            /\ cached_registers' =
                   IF r.cached
                   THEN [f \in DOMAIN cached_registers \cup {filename} |->
                            IF f = filename THEN r.map ELSE cached_registers[f]]
                   ELSE cached_registers
    /\ UNCHANGED notLoad

InitLoad ==
    /\ LoadOnly
    /\ cached_registers = <<>>
    /\ ld_last = NoCall
    /\ ld_n = 0

NextLoad == \E filename \in Filenames : load_address_space_map(filename)

SpecLoad == InitLoad /\ [][NextLoad]_vars

(***************************************************************************)
(* Version, date and board-type decoders (utils_common.py,                 *)
(* tt_smi_backend.py).  A word is the set of its 1 bits; Python integers   *)
(* are unbounded, so a word read from a hex string is never negative.  A   *)
(* decoded string is kept as its numbers: "10.15.1" is <<10, 15, 1>>.      *)
(***************************************************************************)
\* the integer a set of bit positions stands for (positions below 31)
RECURSIVE Val(_)
Val(w) ==
    IF w = {} THEN 0
    ELSE LET b == CHOOSE x \in w : \A y \in w : y <= x
         IN  2^b + Val(w \ {b})

\* Python's  w >> shift & mask  for a mask of width ones
Field(w, shift, width) == Val(Shr(w, shift) \cap Bits(0, width - 1))

\* what a decoder gives: the string "N/A", a string of numbers, or an exception
NA == [na |-> TRUE, raised |-> FALSE, parts |-> <<>>]

Str(parts) == [na |-> FALSE, raised |-> FALSE, parts |-> parts]

DecRaised == [na |-> FALSE, raised |-> TRUE, parts |-> <<>>]

\* hex_to_semver: major.minor.patch from bits 23:16, 15:8, 7:0
hex_to_semver(hexsemver) ==
    IF hexsemver = {} \/ hexsemver = WORD32 THEN DecRaised
    ELSE Str(<<Field(hexsemver, 16, 8), Field(hexsemver, 8, 8), Field(hexsemver, 0, 8)>>)

\* hex_to_semver_eth: the sentinel is 0xFFFFFF, 24 bits
hex_to_semver_eth(hexsemver) ==
    IF hexsemver = {} \/ hexsemver = Bits(0, 23) THEN NA
    ELSE Str(<<Field(hexsemver, 16, 8), Field(hexsemver, 12, 4), Field(hexsemver, 0, 12)>>)

hex_to_semver_m3_fw(hexsemver) ==
    IF hexsemver = {} \/ hexsemver = WORD32 THEN NA
    ELSE Str(<<Field(hexsemver, 24, 8), Field(hexsemver, 16, 8),
               Field(hexsemver, 8, 8), Field(hexsemver, 0, 8)>>)

\* hex_to_date: YYYY-MM-DD, followed by HH:MM when include_time
hex_to_date(hexdate, include_time) ==
    IF hexdate = {} \/ hexdate = WORD32 THEN NA
    ELSE Str(<<Field(hexdate, 28, 4) + 2020, Field(hexdate, 24, 4), Field(hexdate, 16, 8)>>
             \o (IF include_time
                 THEN <<Field(hexdate, 8, 8), Field(hexdate, 0, 8)>>
                 ELSE <<>>))

\* convert_signed_16_16_to_float: (value >> 16) + (value & 0xFFFF) / 65536.0,
\* kept as the integer term and the numerator of the fraction
convert_signed_16_16_to_float(value) ==
    [int |-> Val(Shr(value, 16)), frac |-> Val(value \cap Bits(0, 15))]

\* the model names get_board_type knows, by UPI
BoardTypes ==
    [upi \in {3, 10, 7, 8, 11, 20, 24, 53, 54, 67, 64, 65, 66, 68, 69, 70, 71} |->
        CASE upi = 3  -> "e150"
          [] upi = 10 -> "e300"
          [] upi = 7  -> "e75"
          [] upi = 8  -> "nb_cb"
          [] upi = 11 -> "wh_4u"
          [] upi = 20 -> "n300"
          [] upi = 24 -> "n150"
          [] upi = 53 -> "tt-galaxy-wh"
          [] upi = 54 -> "bh-scrappy"
          [] upi = 67 -> "p100a"
          [] upi = 64 -> "p150a"
          [] upi = 65 -> "p150b"
          [] upi = 66 -> "p150c"
          [] upi = 68 -> "p300b"
          [] upi = 69 -> "p300a"
          [] upi = 70 -> "p300c"
          [] upi = 71 -> "tt-galaxy-bh"]

\* a board id string: "N/A", or the hex digits of a 64-bit number
BoardIdNA == [na |-> TRUE, id |-> {}]

BoardId(id) == [na |-> FALSE, id |-> id]

\* mutant: the UPI taken four bits too low, (serial_num >> 32) & 0xFFFFF
get_board_type_Shift32(board_id) ==
    IF board_id.na THEN "N/A"
    ELSE LET upi == Field(board_id.id, 32, 20)
         IN  IF upi \in DOMAIN BoardTypes THEN BoardTypes[upi] ELSE "N/A"

\* get_board_type(board_id): upi = (serial_num >> 36) & 0xFFFFF
get_board_type(board_id) ==
    IF board_id.na THEN "N/A"
    ELSE LET upi == Field(board_id.id, 36, 20)
         IN  IF upi \in DOMAIN BoardTypes THEN BoardTypes[upi] ELSE "N/A"

(***************************************************************************)
(* TTSMIBackend: decoding one chip's telemetry table (tt_smi_backend.py).  *)
(* get_smbus_board_info fills the table with hex(value) for every          *)
(* attribute of the telemetry struct that is non-zero; every other tag is  *)
(* None, or has no key at all when SMBUS_TELEMETRY_LIST does not name it.  *)
(* int(hex(value), 16) is value, so the table holds the words themselves.  *)
(***************************************************************************)
MaxAbsent == 2

None == [some |-> FALSE, v |-> {}]

Some(v) == [some |-> TRUE, v |-> v]

\* the tags the four decoders look at
TelemTags ==
    {"TDC", "VCORE", "TDP", "ASIC_TEMPERATURE", "AICLK", "ARC3_HEALTH", "TIMER_HEARTBEAT",
     "FAN_SPEED", "FAN_RPM", "VDD_LIMITS", "THM_LIMITS", "TDP_LIMIT_MAX", "TDC_LIMIT_MAX",
     "AICLK_LIMIT_MAX", "THM_LIMIT_THROTTLE", "BOARD_ID", "BOARD_ID_LOW", "BOARD_ID_HIGH",
     "ARC0_FW_VERSION", "WH_FW_DATE", "ETH_FW_VERSION", "M3_BL_FW_VERSION",
     "M3_APP_FW_VERSION", "TT_FLASH_VERSION", "FW_BUNDLE_VERSION"}

\* the words of a chip with every tag populated: an n150 board, and a
\* wh_4u board whose FW_BUNDLE_VERSION reads 0xffffffff
TelemWords ==
    {[tag \in TelemTags |->
        CASE tag = "BOARD_ID"      -> {0, 5, 39, 40}
          [] tag = "BOARD_ID_LOW"  -> {0, 5}
          [] tag = "BOARD_ID_HIGH" -> {7, 8}
          [] tag \in {"ARC0_FW_VERSION", "ETH_FW_VERSION", "M3_BL_FW_VERSION",
                      "M3_APP_FW_VERSION", "TT_FLASH_VERSION", "FW_BUNDLE_VERSION"}
                                   -> {8, 17, 24}
          [] tag = "WH_FW_DATE"    -> {2, 16, 25, 30}
          [] OTHER                 -> {2, 5, 17, 20}],
     [tag \in TelemTags |->
        CASE tag = "BOARD_ID"      -> {3, 36, 37, 39}
          [] tag = "BOARD_ID_LOW"  -> {3}
          [] tag = "BOARD_ID_HIGH" -> {4, 5, 7}
          [] tag = "FW_BUNDLE_VERSION" -> WORD32
          [] tag = "TT_FLASH_VERSION"  -> {16, 25}
          [] tag \in {"ARC0_FW_VERSION", "ETH_FW_VERSION", "M3_BL_FW_VERSION",
                      "M3_APP_FW_VERSION"}
                                   -> {0, 9, 18}
          [] tag = "WH_FW_DATE"    -> {1, 17, 24, 29}
          [] OTHER                 -> {0, 3, 12, 13, 16}]}

\* the sets of tags the firmware left unpopulated
RECURSIVE TagSetsUpTo(_)
TagSetsUpTo(n) ==
    IF n = 0 THEN {{}}
    ELSE TagSetsUpTo(n - 1) \cup {a \cup {tag} : a \in TagSetsUpTo(n - 1), tag \in TelemTags}

AbsentSets == TagSetsUpTo(MaxAbsent) \cup {TelemTags}

TelemetryTable(words, absent) ==
    [tag \in TelemTags |-> IF tag \in absent THEN None ELSE Some(words[tag])]

\* int(table[tag], 16): TypeError on None
IntOf(table, tag) == table[tag].v

\* get_board_id: BOARD_ID when truthy, else BOARD_ID_HIGH and BOARD_ID_LOW,
\* both handed to int() before the test for None
get_board_id(table) ==
    IF table["BOARD_ID"].some
    THEN [raised |-> FALSE, board_id |-> BoardId(IntOf(table, "BOARD_ID"))]
    ELSE IF ~table["BOARD_ID_LOW"].some THEN [raised |-> TRUE, board_id |-> BoardIdNA]
    ELSE IF ~table["BOARD_ID_HIGH"].some THEN [raised |-> TRUE, board_id |-> BoardIdNA]
    ELSE [raised |-> FALSE,
          board_id |-> BoardId(IntOf(table, "BOARD_ID_LOW")
                               \cup Shl(IntOf(table, "BOARD_ID_HIGH"), 32))]

\* get_wh_chip_telemetry: TDC, TDP, ASIC_TEMPERATURE, AICLK and ARC3_HEALTH
\* go to int() without a test for None.  voltage in mV, asic_temperature in
\* sixteenths of a degree
get_wh_chip_telemetry(table) ==
    IF \E tag \in {"TDC", "TDP", "ASIC_TEMPERATURE", "AICLK", "ARC3_HEALTH"} : ~table[tag].some
    THEN [raised |-> TRUE, result |-> <<>>]
    ELSE [raised |-> FALSE,
          result |->
            [voltage |-> IF table["VCORE"].some THEN Val(IntOf(table, "VCORE")) ELSE 10000 * 1000,
             current |-> Field(IntOf(table, "TDC"), 0, 16),
             power |-> Field(IntOf(table, "TDP"), 0, 16),
             aiclk |-> Field(IntOf(table, "AICLK"), 0, 16),
             asic_temperature |-> Field(IntOf(table, "ASIC_TEMPERATURE"), 0, 16),
             fan_speed |-> IF table["FAN_SPEED"].some THEN Val(IntOf(table, "FAN_SPEED")) ELSE 0,
             heartbeat |-> Val(IntOf(table, "ARC3_HEALTH")) \div 5]]

\* get_bh_chip_telemetry: only TIMER_HEARTBEAT goes to int() without a test.
\* asic_temperature as convert_signed_16_16_to_float gives it, fan_speed as
\* the capped RPM (the percentage times 50)
get_bh_chip_telemetry(table) ==
    IF ~table["TIMER_HEARTBEAT"].some
    THEN [raised |-> TRUE, result |-> <<>>]
    ELSE [raised |-> FALSE,
          result |->
            [voltage |-> IF table["VCORE"].some THEN Val(IntOf(table, "VCORE")) ELSE 10000 * 1000,
             current |-> IF table["TDC"].some THEN Field(IntOf(table, "TDC"), 0, 16) ELSE 0,
             power |-> IF table["TDP"].some THEN Field(IntOf(table, "TDP"), 0, 16) ELSE 0,
             aiclk |-> IF table["AICLK"].some THEN Field(IntOf(table, "AICLK"), 0, 16) ELSE 0,
             asic_temperature |->
                 IF table["ASIC_TEMPERATURE"].some
                 THEN convert_signed_16_16_to_float(IntOf(table, "ASIC_TEMPERATURE"))
                 ELSE [int |-> 0, frac |-> 0],
             fan_speed |-> IF table["FAN_RPM"].some
                           THEN (IF Val(IntOf(table, "FAN_RPM")) < 5000
                                 THEN Val(IntOf(table, "FAN_RPM")) ELSE 5000)
                           ELSE 0,
             heartbeat |-> Val(IntOf(table, "TIMER_HEARTBEAT")) \div 6]]

\* get_chip_telemetry: the else branch formats the undefined name e
get_chip_telemetry(arch, table) ==
    IF arch = "bh" THEN get_bh_chip_telemetry(table)
    ELSE IF arch = "wh" THEN get_wh_chip_telemetry(table)
    ELSE [raised |-> TRUE, result |-> <<>>]

\* one limit: the number formatted from the tag, or 0 when the tag is absent
Limit(table, tag, shift, width) ==
    IF table[tag].some THEN Field(IntOf(table, tag), shift, width) ELSE 0

\* get_wh_chip_limits; vdd in mV
get_wh_chip_limits(table) ==
    [vdd_min |-> Limit(table, "VDD_LIMITS", 0, 16),
     vdd_max |-> Limit(table, "VDD_LIMITS", 16, 16),
     tdp_limit |-> Limit(table, "TDP", 16, 16),
     tdc_limit |-> Limit(table, "TDC", 16, 16),
     asic_fmax |-> Limit(table, "AICLK", 16, 16),
     therm_trip_l1_limit |-> Limit(table, "THM_LIMITS", 16, 16),
     thm_limit |-> Limit(table, "THM_LIMITS", 0, 16),
     bus_peak_limit |-> 0]

\* get_bh_chip_limits
get_bh_chip_limits(table) ==
    [vdd_min |-> Limit(table, "VDD_LIMITS", 0, 16),
     vdd_max |-> Limit(table, "VDD_LIMITS", 16, 16),
     tdp_limit |-> Limit(table, "TDP_LIMIT_MAX", 0, 31),
     tdc_limit |-> Limit(table, "TDC_LIMIT_MAX", 0, 31),
     asic_fmax |-> Limit(table, "AICLK_LIMIT_MAX", 0, 31),
     therm_trip_l1_limit |-> Limit(table, "THM_LIMIT_THROTTLE", 0, 31),
     thm_limit |-> Limit(table, "THM_LIMITS", 0, 31),
     bus_peak_limit |-> 0]

get_chip_limits(arch, table) ==
    IF arch = "bh" THEN [raised |-> FALSE, result |-> get_bh_chip_limits(table)]
    ELSE IF arch = "wh" THEN [raised |-> FALSE, result |-> get_wh_chip_limits(table)]
    ELSE [raised |-> FALSE, result |-> <<>>]

\* a field of get_firmware_versions decoded by one decoder from one tag
FwField(table, tag, decoded) == IF ~table[tag].some THEN NA ELSE decoded

\* tt_flash_version: "N/A" for an absent tag, else the board type is looked up
tt_flash_version(table) ==
    IF ~table["TT_FLASH_VERSION"].some THEN NA
    ELSE IF get_board_id(table).raised THEN DecRaised
    ELSE IF get_board_type(get_board_id(table).board_id) = "wh_4u" THEN NA
    ELSE hex_to_semver_m3_fw(IntOf(table, "TT_FLASH_VERSION"))

\* fw_bundle_version: the board type is looked up first; on wh_4u with the
\* value 0xffffffff the value of TT_FLASH_VERSION is decoded instead
fw_bundle_version(table) ==
    IF get_board_id(table).raised THEN DecRaised
    ELSE IF /\ get_board_type(get_board_id(table).board_id) = "wh_4u"
            /\ table["FW_BUNDLE_VERSION"].some
            /\ IntOf(table, "FW_BUNDLE_VERSION") = WORD32
    THEN (IF ~table["TT_FLASH_VERSION"].some THEN DecRaised
          ELSE hex_to_semver_m3_fw(IntOf(table, "TT_FLASH_VERSION")))
    ELSE FwField(table, "FW_BUNDLE_VERSION",
                 hex_to_semver_m3_fw(IntOf(table, "FW_BUNDLE_VERSION")))

\* the tag behind each field of constants.FW_LIST
FwTag ==
    [fw_bundle_version |-> "FW_BUNDLE_VERSION", tt_flash_version |-> "TT_FLASH_VERSION",
     cm_fw |-> "ARC0_FW_VERSION", cm_fw_date |-> "WH_FW_DATE", eth_fw |-> "ETH_FW_VERSION",
     bm_bl_fw |-> "M3_BL_FW_VERSION", bm_app_fw |-> "M3_APP_FW_VERSION"]

\* get_firmware_versions: raises when the decoding of a field raises
get_firmware_versions(table) ==
    LET fw_versions ==
            [fw_bundle_version |-> fw_bundle_version(table),
             tt_flash_version |-> tt_flash_version(table),
             cm_fw |-> FwField(table, "ARC0_FW_VERSION",
                               hex_to_semver_m3_fw(IntOf(table, "ARC0_FW_VERSION"))),
             cm_fw_date |-> FwField(table, "WH_FW_DATE",
                                    hex_to_date(IntOf(table, "WH_FW_DATE"), FALSE)),
             eth_fw |-> FwField(table, "ETH_FW_VERSION",
                                hex_to_semver_eth(IntOf(table, "ETH_FW_VERSION"))),
             bm_bl_fw |-> FwField(table, "M3_BL_FW_VERSION",
                                  hex_to_semver_m3_fw(IntOf(table, "M3_BL_FW_VERSION"))),
             bm_app_fw |-> FwField(table, "M3_APP_FW_VERSION",
                                   hex_to_semver_m3_fw(IntOf(table, "M3_APP_FW_VERSION")))]
    IN  [raised |-> \E field \in DOMAIN fw_versions : fw_versions[field].raised,
         result |-> fw_versions]

\* one decoding of the table
Decoded(op, r) ==
    /\ tm_last' = [op |-> op, raised |-> r.raised, result |-> r.result]
    /\ UNCHANGED <<notTelem, tm_arch, smbus_telem_info, dec_in>>

DoGetChipTelemetry == Decoded("get_chip_telemetry", get_chip_telemetry(tm_arch, smbus_telem_info))

DoGetChipLimits == Decoded("get_chip_limits", get_chip_limits(tm_arch, smbus_telem_info))

DoGetFirmwareVersions == Decoded("get_firmware_versions", get_firmware_versions(smbus_telem_info))

DoGetBoardId ==
    Decoded("get_board_id",
            [raised |-> get_board_id(smbus_telem_info).raised,
             result |-> get_board_id(smbus_telem_info).board_id])

InitTelem ==
    /\ TelemOnly
    /\ tm_arch \in {"wh", "bh"}
    /\ \E words \in TelemWords, absent \in AbsentSets :
          smbus_telem_info = TelemetryTable(words, absent)
    /\ dec_in = {}
    /\ tm_last = NoCall

NextTelem == DoGetChipTelemetry \/ DoGetChipLimits \/ DoGetFirmwareVersions \/ DoGetBoardId

SpecTelem == InitTelem /\ [][NextTelem]_vars

-----------------------------------------------------------------------------
(* The decoders applied to one argument: a 32-bit word read from the       *)
(* telemetry table, or a board id string.                                  *)

\* 0x00000000, 0xFFFFFFFF, 0x00FFFFFF, 0x003C0000, 0xFFF60000, 0x80000000,
\* 0x7FFFFFFF, 0x0A0F0100, 0x00061000, 0x45120E1E and words with a fraction
WordSamples ==
    {{}, WORD32, Bits(0, 23), {18, 19, 20, 21}, {17, 18} \cup Bits(20, 31), {31},
     Bits(0, 30), {8, 16, 17, 18, 19, 25, 27}, {12, 17, 18},
     {1, 2, 3, 4, 9, 10, 11, 17, 20, 24, 26, 30}, {0}, {15}, {15, 16}, {14, 31},
     Bits(16, 31), Bits(0, 15)}

\* the UPIs tried: the 17 of the table, and 0, 1, 2, 0x48, 0x80003, 0xFFFFF
UpiSamples ==
    {{0, 1}, {1, 3}, {0, 1, 2}, {3}, {0, 1, 3}, {2, 4}, {3, 4}, {0, 2, 4, 5}, {1, 2, 4, 5},
     {0, 1, 6}, {6}, {0, 6}, {1, 6}, {2, 6}, {0, 2, 6}, {1, 2, 6}, {0, 1, 2, 6},
     {}, {0}, {1}, {3, 6}, {0, 1, 19}, Bits(0, 19)}

\* bits 35:0 and bits 63:56 of the board id
LowSamples == {{}, {0, 35}, Bits(0, 35)}

HighSamples == {{}, {56, 63}}

BoardIdSamples ==
    {Shl(upi, 36) \cup low \cup high : upi \in UpiSamples, low \in LowSamples, high \in HighSamples}

\* one decoder applied to the argument
Applied(op, raised, result) ==
    /\ tm_last' = [op |-> op, raised |-> raised, result |-> result]
    /\ UNCHANGED <<notTelem, tm_arch, smbus_telem_info, dec_in>>

DoHexToSemver ==
    /\ dec_in.kind = "word"
    /\ Applied("hex_to_semver", hex_to_semver(dec_in.v).raised, hex_to_semver(dec_in.v))

DoHexToSemverEth ==
    /\ dec_in.kind = "word"
    /\ Applied("hex_to_semver_eth", hex_to_semver_eth(dec_in.v).raised, hex_to_semver_eth(dec_in.v))

DoHexToSemverM3Fw ==
    /\ dec_in.kind = "word"
    /\ Applied("hex_to_semver_m3_fw", hex_to_semver_m3_fw(dec_in.v).raised,
               hex_to_semver_m3_fw(dec_in.v))

DoHexToDate ==
    /\ dec_in.kind = "word"
    /\ \E include_time \in BOOLEAN :
          Applied("hex_to_date", hex_to_date(dec_in.v, include_time).raised,
                  hex_to_date(dec_in.v, include_time))

DoConvertSigned ==
    /\ dec_in.kind = "word"
    /\ Applied("convert_signed_16_16_to_float", FALSE, convert_signed_16_16_to_float(dec_in.v))

DoGetBoardType ==
    /\ dec_in.kind = "board_id"
    /\ Applied("get_board_type", FALSE,
               get_board_type([na |-> dec_in.na, id |-> dec_in.v]))

InitDecode ==
    /\ TelemOnly
    /\ tm_arch = "none"
    /\ smbus_telem_info = <<>>
    /\ dec_in \in [kind : {"word"}, na : {FALSE}, v : WordSamples]
                  \cup [kind : {"board_id"}, na : {FALSE}, v : BoardIdSamples]
                  \cup [kind : {"board_id"}, na : {TRUE}, v : {{}}]
    /\ tm_last = NoCall

NextDecode ==
    \/ DoHexToSemver
    \/ DoHexToSemverEth
    \/ DoHexToSemverM3Fw
    \/ DoHexToDate
    \/ DoConvertSigned
    \/ DoGetBoardType

SpecDecode == InitDecode /\ [][NextDecode]_vars

-----------------------------------------------------------------------------
(* Chassis reset over threads (resets/wh_resets.py).  Each function below  *)
(* is the target of one thread per chassis; what the chassis answers is an *)
(* input of the step that runs the thread.                                 *)

MaxMobos == 3

\* server_communication: the request or the answer may make it raise
server_communication(answer_ok) == IF answer_ok THEN "return" ELSE "raise"

\* credo_boot: nothing to do without a "credo" key, else post "boot"
credo_boot(has_credo, answer_ok) ==
    IF ~has_credo THEN "return" ELSE server_communication(answer_ok)

\* wait_for_boot_complete: returns at once for a server older than 0.3.0;
\* otherwise it calls tqdm(...), and tqdm is the module (import tqdm), which
\* is not callable
wait_for_boot_complete(version_below_0_3_0) ==
    IF version_below_0_3_0 THEN "return" ELSE "raise"

shutdown_modules(answer_ok) == server_communication(answer_ok)

boot_modules(answer_ok) == server_communication(answer_ok)

Targets == <<"credo_boot", "wait_for_boot_complete", "shutdown_modules", "boot_modules">>

target(function, has_credo, version_below_0_3_0, answer_ok) ==
    CASE function = "credo_boot" -> credo_boot(has_credo, answer_ok)
      [] function = "wait_for_boot_complete" -> wait_for_boot_complete(version_below_0_3_0)
      [] function = "shutdown_modules" -> shutdown_modules(answer_ok)
      [] function = "boot_modules" -> boot_modules(answer_ok)

MoboEvent(ev, c, fn, ok) == [ev |-> ev, c |-> c, fn |-> fn, ok |-> ok]

\* check_driver_version("boot mobo"): without a driver it exits; with an old
\* one it builds its message with '.'.join(map(str, 21)), which raises
check_driver_version ==
    /\ mobo_pc = "check_driver"
    /\ \E driver \in {"none", "old", "new"} :
          CASE driver = "none" -> /\ mobo_pc' = "exit"
                                  /\ mobo_exit' = 1
                                  /\ UNCHANGED <<mobo_fn, mobo_k>>
            [] driver = "old" -> /\ mobo_pc' = "raised"
                                 /\ UNCHANGED <<mobo_fn, mobo_k, mobo_exit>>
            [] driver = "new" -> /\ mobo_pc' = "start"
                                 /\ mobo_fn' = Targets[1]
                                 /\ mobo_k' = 1
                                 /\ UNCHANGED mobo_exit
    /\ UNCHANGED <<notMobo, mobo_entry, mobo_dict_list, all_threads, mobo_log>>

\* for mobo_dict in mobo_dict_list: t = ThreadWrapper(...); all_threads.append(t); t.start()
StartThread ==
    /\ mobo_pc = "start"
    /\ mobo_k <= Len(mobo_dict_list)
    /\ all_threads' = Append(all_threads, [st |-> "running", exc |-> FALSE])
    /\ mobo_log' = Append(mobo_log, MoboEvent("start", mobo_k, mobo_fn, TRUE))
    /\ mobo_k' = mobo_k + 1
    /\ UNCHANGED <<notMobo, mobo_pc, mobo_entry, mobo_dict_list, mobo_fn, mobo_exit>>

StartLoopEnd ==
    /\ mobo_pc = "start"
    /\ mobo_k > Len(mobo_dict_list)
    /\ mobo_pc' = "join"
    /\ mobo_k' = 1
    /\ UNCHANGED <<notMobo, mobo_entry, mobo_dict_list, mobo_fn, all_threads, mobo_log, mobo_exit>>

\* ThreadWrapper.run of thread c: the target returns, or raises and the
\* exception is kept in self.exc
ThreadRun ==
    /\ mobo_exit = NoExit
    /\ \E c \in DOMAIN all_threads :
          /\ all_threads[c].st = "running"
          /\ \E has_credo \in BOOLEAN, version_below_0_3_0 \in BOOLEAN, answer_ok \in BOOLEAN :
                LET out == target(mobo_fn, has_credo, version_below_0_3_0, answer_ok)
                IN  /\ all_threads' = [all_threads EXCEPT ![c] =
                                          [st |-> "finished", exc |-> (out = "raise")]]
                    /\ mobo_log' = Append(mobo_log, MoboEvent("end", c, mobo_fn, out = "return"))
    /\ UNCHANGED <<notMobo, mobo_pc, mobo_entry, mobo_dict_list, mobo_fn, mobo_k, mobo_exit>>

\* mutant: join comes back although the thread is still running
join_returns_NoWait(t) == TRUE

\* t.join() comes back once the thread has finished
join_returns(t) == t.st = "finished"

JoinThread ==
    /\ mobo_pc = "join"
    /\ mobo_k <= Len(all_threads)
    /\ join_returns(all_threads[mobo_k])
    /\ mobo_k' = mobo_k + 1
    /\ UNCHANGED <<notMobo, mobo_pc, mobo_entry, mobo_dict_list, mobo_fn, all_threads, mobo_log, mobo_exit>>

\* mutant: the exceptions the threads kept are not looked at
exceptions_Dropped(threads) == {}

\* exceptions = [t.exc for t in all_threads if t.exc is not None]
exceptions(threads) == {c \in DOMAIN threads : threads[c].exc}

\* the position of a function in warm_reset_mobo
Stage(function) == CHOOSE k \in DOMAIN Targets : Targets[k] = function

\* after the join loop: exit with 1 if a thread kept an exception, else
\* return to the caller; warm_reset_mobo goes on with its next line
Report ==
    /\ mobo_pc = "join"
    /\ mobo_k > Len(all_threads)
    /\ IF exceptions(all_threads) # {}
       THEN /\ mobo_pc' = "exit"
            /\ mobo_exit' = 1
            /\ mobo_log' = Append(mobo_log, MoboEvent("report", 0, mobo_fn, FALSE))
            /\ UNCHANGED <<mobo_fn, mobo_k, all_threads>>
       ELSE /\ mobo_log' = Append(mobo_log, MoboEvent("return", 0, mobo_fn, TRUE))
            /\ UNCHANGED mobo_exit
            /\ IF mobo_entry = "threaded_mobo_reset" \/ Stage(mobo_fn) = Len(Targets)
               THEN mobo_pc' = "returned" /\ UNCHANGED <<mobo_fn, mobo_k, all_threads>>
               ELSE IF Stage(mobo_fn) = 1
               THEN mobo_pc' = "mobo_list" /\ UNCHANGED <<mobo_fn, mobo_k, all_threads>>
               ELSE /\ mobo_pc' = "start"
                    /\ mobo_fn' = Targets[Stage(mobo_fn) + 1]
                    /\ mobo_k' = 1
                    /\ all_threads' = <<>>
    /\ UNCHANGED <<notMobo, mobo_entry, mobo_dict_list>>

\* mobo_list = [entry["mobo"] for entry in mobo_dict_list["wh_mobo_reset"]]:
\* mobo_dict_list is the list the threads were started from, and a list
\* subscripted with a string raises TypeError
MoboList ==
    /\ mobo_pc = "mobo_list"
    /\ mobo_pc' = "raised"
    /\ UNCHANGED <<notMobo, mobo_entry, mobo_dict_list, mobo_fn, mobo_k, all_threads, mobo_log, mobo_exit>>

InitMobo ==
    /\ MoboOnly
    /\ \E n \in 0..MaxMobos : mobo_dict_list = [c \in 1..n |-> c]
    /\ \/ /\ mobo_entry = "warm_reset_mobo"
          /\ mobo_pc = "check_driver"
          /\ mobo_fn = "none"
          /\ mobo_k = 0
       \/ /\ mobo_entry = "threaded_mobo_reset"
          /\ mobo_pc = "start"
          /\ mobo_fn \in {Targets[k] : k \in DOMAIN Targets}
          /\ mobo_k = 1
    /\ all_threads = <<>>
    /\ mobo_log = <<>>
    /\ mobo_exit = NoExit

NextMobo ==
    \/ check_driver_version
    \/ StartThread
    \/ StartLoopEnd
    \/ ThreadRun
    \/ JoinThread
    \/ Report
    \/ MoboList

SpecMobo == InitMobo /\ [][NextMobo]_vars

-----------------------------------------------------------------------------
(* wait_for_boot_complete(mobo_dict, mobo_list, timeout), step by step.    *)
(* The module does "import tqdm", so the name tqdm is the module, and the  *)
(* call tqdm(total=100, ...) of line 122 raises TypeError ('module' object *)
(* is not callable).  Nothing after line 122 runs: the poll loop of lines  *)
(* 130-149, with its test of the elapsed time against the timeout, is      *)
(* never entered.                                                          *)

\* the timeouts tried; 600 is the default
Timeouts == {0, 1, 600}

\* what /about answers: no such endpoint (any exception), or a version
AboutAnswers ==
    {<<0, 0, 0>>, <<0, 2, 9>>, <<0, 3, 0>>, <<1, 3, 1>>, <<1, 3, 2>>, <<2, 0, 0>>}

\* Python's order on tuples of three integers
TupleLess(a, b) ==
    \/ a[1] < b[1]
    \/ a[1] = b[1] /\ a[2] < b[2]
    \/ a[1] = b[1] /\ a[2] = b[2] /\ a[3] < b[3]

\* get_server_version: (0, 0, 0) when the request or the parsing raises
get_server_version ==
    /\ boot_pc = "start"
    /\ server_version' = IF ~about.ok THEN <<0, 0, 0>> ELSE about.version
    /\ boot_pc' = "version"
    /\ UNCHANGED <<notBoot, boot_args, about, boot_exc>>

\* if server_version < (0, 3, 0): return
WaitOldServerReturn ==
    /\ boot_pc = "version"
    /\ wait_for_boot_complete(TupleLess(server_version, <<0, 3, 0>>)) = "return"
    /\ boot_pc' = "returned"
    /\ UNCHANGED <<notBoot, boot_args, about, server_version, boot_exc>>

\* position = mobo_list.index(mobo); progress_bar = tqdm(...): TypeError
WaitProgressBar ==
    /\ boot_pc = "version"
    /\ wait_for_boot_complete(TupleLess(server_version, <<0, 3, 0>>)) = "raise"
    /\ boot_pc' = "raised"
    /\ boot_exc' = "TypeError"
    /\ UNCHANGED <<notBoot, boot_args, about, server_version>>

InitBoot ==
    /\ BootOnly
    /\ boot_pc = "start"
    /\ \E n \in 1..MaxMobos, mobo \in 1..MaxMobos, timeout \in Timeouts :
          /\ mobo <= n
          /\ boot_args = [mobo |-> mobo, mobo_list |-> n, timeout |-> timeout]
    /\ about \in {[ok |-> FALSE, version |-> <<>>]} \cup [ok : {TRUE}, version : AboutAnswers]
    /\ server_version = <<>>
    /\ boot_exc = "none"

NextBoot == get_server_version \/ WaitOldServerReturn \/ WaitProgressBar

SpecBoot == InitBoot /\ [][NextBoot]_vars

-----------------------------------------------------------------------------
(* pci_board_reset (tt_smi_backend.py).  The reset routines of             *)
(* WHChipReset / BHChipReset and detect_chips_with_callback are calls into *)
(* the machine: a routine takes its chips off the bus, and has them back   *)
(* on the bus when it returns; it may also fail.                           *)

MaxBoards == 4

Devices == {0, 1, 2, 3}

\* what opening /dev/tenstorrent/<d> gives on the machines looked at;
\* "none" is a device that cannot be opened
KindConfigs ==
    {[d \in Devices |-> "wh"],
     [d \in Devices |-> "bh"],
     [d \in Devices |-> IF d % 2 = 0 THEN "wh" ELSE "bh"],
     [d \in Devices |-> CASE d = 0 -> "wh" [] d = 1 -> "none" [] d = 2 -> "bh" [] OTHER -> "wh"],
     [d \in Devices |-> CASE d = 0 -> "bh" [] d = 1 -> "wh" [] d = 2 -> "gs" [] OTHER -> "none"]}

RECURSIVE SeqsUpTo(_, _)
SeqsUpTo(S, n) ==
    IF n = 0 THEN {<<>>}
    ELSE SeqsUpTo(S, n - 1) \cup {Append(q, x) : q \in {r \in SeqsUpTo(S, n - 1) : Len(r) = n - 1}, x \in S}

Range(q) == {q[i] : i \in DOMAIN q}

\* PciChip(pci_interface=pci_idx): the chip, or "none" for the exception
PciChip(pci_idx) == chip_kind[pci_idx]

\* mutant: every chip that opens and is not Grayskull counts as Wormhole
as_wh_Any(chip) == chip \in {"wh", "bh"}

as_wh(chip) == chip = "wh"

as_bh(chip) == chip = "bh"

PciCall(fn, arg) == [fn |-> fn, arg |-> arg]

\* mutant: the chip is skipped and the loop goes on
UnknownChip_Skipped ==
    /\ pci_k' = pci_k + 1
    /\ UNCHANGED <<pci_pc, pci_exit, reset_wh_pci_idx, reset_bh_pci_idx>>

\* print "Unkown chip!!", del chip, sys.exit(1)
UnknownChip ==
    /\ pci_pc' = "exit"
    /\ pci_exit' = 1
    /\ UNCHANGED <<pci_k, reset_wh_pci_idx, reset_bh_pci_idx>>

\* the body of "for pci_idx in list_of_boards"
ClassifyChip ==
    /\ pci_pc = "classify"
    /\ pci_k <= Len(list_of_boards)
    /\ LET pci_idx == list_of_boards[pci_k]
           chip == PciChip(pci_idx)
       IN  IF chip = "none"
           THEN /\ pci_k' = pci_k + 1
                /\ UNCHANGED <<pci_pc, pci_exit, reset_wh_pci_idx, reset_bh_pci_idx>>
           ELSE IF as_wh(chip)
           THEN /\ reset_wh_pci_idx' = Append(reset_wh_pci_idx, pci_idx)
                /\ pci_k' = pci_k + 1
                /\ UNCHANGED <<pci_pc, pci_exit, reset_bh_pci_idx>>
           ELSE IF as_bh(chip)
           THEN /\ reset_bh_pci_idx' = Append(reset_bh_pci_idx, pci_idx)
                /\ pci_k' = pci_k + 1
                /\ UNCHANGED <<pci_pc, pci_exit, reset_wh_pci_idx>>
           ELSE UnknownChip
    /\ UNCHANGED <<notPci, list_of_boards, reinit, chip_kind, on_bus, pci_calls>>

ClassifyDone ==
    /\ pci_pc = "classify"
    /\ pci_k > Len(list_of_boards)
    /\ pci_pc' = "reset_wh"
    /\ UNCHANGED <<notPci, list_of_boards, reinit, chip_kind, pci_k, reset_wh_pci_idx,
                   reset_bh_pci_idx, on_bus, pci_calls, pci_exit>>

\* "if idx_list: XChipReset().full_lds_reset(pci_interfaces=idx_list)": the call
ResetCall(at, idx_list, fn, inside, after) ==
    /\ pci_pc = at
    /\ IF idx_list # <<>>
       THEN /\ pci_calls' = Append(pci_calls, PciCall(fn, idx_list))
            /\ on_bus' = on_bus \ Range(idx_list)
            /\ pci_pc' = inside
       ELSE /\ pci_pc' = after
            /\ UNCHANGED <<pci_calls, on_bus>>
    /\ UNCHANGED <<notPci, list_of_boards, reinit, chip_kind, pci_k, reset_wh_pci_idx,
                   reset_bh_pci_idx, pci_exit>>

\* the routine returns with its chips back on the bus, or it fails and
\* pci_board_reset is left with the exception
ResetReturn(inside, idx_list, fn, after) ==
    /\ pci_pc = inside
    /\ \/ /\ pci_calls' = Append(pci_calls, PciCall("return", fn))
          /\ on_bus' = on_bus \cup Range(idx_list)
          /\ pci_pc' = after
       \/ /\ pci_pc' = "raised"
          /\ UNCHANGED <<pci_calls, on_bus>>
    /\ UNCHANGED <<notPci, list_of_boards, reinit, chip_kind, pci_k, reset_wh_pci_idx,
                   reset_bh_pci_idx, pci_exit>>

WhResetCall == ResetCall("reset_wh", reset_wh_pci_idx, "WHChipReset", "in_wh", "reset_bh")

WhResetReturn == ResetReturn("in_wh", reset_wh_pci_idx, "WHChipReset", "reset_bh")

BhResetCall == ResetCall("reset_bh", reset_bh_pci_idx, "BHChipReset", "in_bh", "reinit")

BhResetReturn == ResetReturn("in_bh", reset_bh_pci_idx, "BHChipReset", "reinit")

\* mutant: a failed re-enumeration is printed and pci_board_reset returns
Reinit_FailureSwallowed ==
    /\ pci_pc = "reinit"
    /\ IF reinit
       THEN \/ /\ pci_calls' = Append(pci_calls, PciCall("detect_chips_with_callback", on_bus))
               /\ pci_pc' = "returned"
               /\ UNCHANGED pci_exit
            \/ /\ pci_pc' = "returned"
               /\ pci_calls' = Append(pci_calls, PciCall("detect_chips_with_callback raised", on_bus))
               /\ UNCHANGED pci_exit
       ELSE /\ pci_pc' = "returned"
            /\ UNCHANGED <<pci_calls, pci_exit>>
    /\ UNCHANGED <<notPci, list_of_boards, reinit, chip_kind, pci_k, reset_wh_pci_idx,
                   reset_bh_pci_idx, on_bus>>

\* "if reinit:" detect_chips_with_callback finds the chips on the bus, or
\* raises, which ends the process with status 1
Reinit ==
    /\ pci_pc = "reinit"
    /\ IF reinit
       THEN \/ /\ pci_calls' = Append(pci_calls, PciCall("detect_chips_with_callback", on_bus))
               /\ pci_pc' = "returned"
               /\ UNCHANGED pci_exit
            \/ /\ pci_pc' = "exit"
               /\ pci_exit' = 1
               /\ pci_calls' = Append(pci_calls, PciCall("detect_chips_with_callback raised", on_bus))
       ELSE /\ pci_pc' = "returned"
            /\ UNCHANGED <<pci_calls, pci_exit>>
    /\ UNCHANGED <<notPci, list_of_boards, reinit, chip_kind, pci_k, reset_wh_pci_idx,
                   reset_bh_pci_idx, on_bus>>

\* the chips that can be opened are the chips on the bus
Openable == {d \in Devices : chip_kind[d] # "none"}

InitPci ==
    /\ PciOnly
    /\ pci_pc = "classify"
    /\ list_of_boards \in SeqsUpTo(Devices, MaxBoards)
    /\ reinit \in BOOLEAN
    /\ chip_kind \in KindConfigs
    /\ pci_k = 1
    /\ reset_wh_pci_idx = <<>>
    /\ reset_bh_pci_idx = <<>>
    /\ on_bus = Openable
    /\ pci_calls = <<>>
    /\ pci_exit = NoExit

NextPci ==
    \/ ClassifyChip
    \/ ClassifyDone
    \/ WhResetCall
    \/ WhResetReturn
    \/ BhResetCall
    \/ BhResetReturn
    \/ Reinit

SpecPci == InitPci /\ [][NextPci]_vars

-----------------------------------------------------------------------------
(* Galaxy reset: the options -glx_reset, -glx_reset_auto and               *)
(* -glx_reset_tray of main (tt_smi.py), glx_6u_trays_reset and             *)
(* check_wh_galaxy_eth_link_status (tt_smi_backend.py).  The ipmi command, *)
(* the wait for the driver and detect_chips_with_callback are calls into   *)
(* the rack; each may raise.                                               *)

\* Python values that are compared across types
PyStr(v) == [t |-> "str", v |-> v]

PyInt(v) == [t |-> "int", v |-> v]

\* a == b in Python: a str and an int are never equal
PyEq(a, b) == a.t = b.t /\ a.v = b.v

max_reset_try == 3

LINK_INACTIVE_FAIL_DUMMY_PACKET == 10

\* DEBUG_BUF_ADDR + 0x4*96 = 0x12c0 + 0x180
LinkWordAddr == 4800 + 4 * 96

eth_locations_noc_0 ==
    <<<<9, 0>>, <<1, 0>>, <<8, 0>>, <<2, 0>>, <<7, 0>>, <<3, 0>>, <<6, 0>>, <<4, 0>>,
      <<9, 6>>, <<1, 6>>, <<8, 6>>, <<2, 6>>, <<7, 6>>, <<3, 6>>, <<6, 6>>, <<4, 6>>>>

\* device.noc_read32(noc_id, eth_x, eth_y, addr) of chip i
link_word(words, i, eth_x, eth_y) ==
    IF \E w \in words : w[1] = i /\ w[2] = eth_x /\ w[3] = eth_y
    THEN (CHOOSE w \in words : w[1] = i /\ w[2] = eth_x /\ w[3] = eth_y)[4]
    ELSE 0

\* check_wh_galaxy_eth_link_status(devices): its outcome, the reads it makes
\* and its link_errors dictionary (board -> last port with the sentinel)
check_wh_galaxy_eth_link_status(n_devices, words) ==
    IF n_devices # 32
    THEN [out |-> "exit", reads |-> {}, link_errors |-> {}]
    ELSE
    LET bad(i) == {eth \in 0..15 :
                      link_word(words, i, eth_locations_noc_0[eth + 1][1],
                                eth_locations_noc_0[eth + 1][2])
                          = LINK_INACTIVE_FAIL_DUMMY_PACKET}
        link_errors == {<<i, Max(bad(i))>> : i \in {j \in 0..(n_devices - 1) : bad(j) # {}}}
    IN  [out |-> IF link_errors # {} THEN "raise" ELSE "return",
         reads |-> {<<i, 0, eth_locations_noc_0[eth + 1][1], eth_locations_noc_0[eth + 1][2],
                      LinkWordAddr>> : i \in 0..(n_devices - 1), eth \in 0..15},
         link_errors |-> link_errors]

\* sys.exit(code)
GlxExit(code) ==
    /\ glx_pc' = "exit"
    /\ glx_exit' = code

\* mutant: the retry loop of -glx_reset_auto has no limit
GlxRaise_NoLimit ==
    CASE glx_entry \in {"-glx_reset", "-glx_reset_tray"} ->
            GlxExit(1) /\ UNCHANGED reset_try_number
      [] glx_entry = "-glx_reset_auto" ->
            /\ reset_try_number' = reset_try_number + 1
            /\ glx_pc' = "ipmi"
            /\ UNCHANGED glx_exit
      [] OTHER ->
            /\ glx_pc' = "raised"
            /\ UNCHANGED <<glx_exit, reset_try_number>>

\* an Exception leaves glx_6u_trays_reset: the except clause of the caller
GlxRaise ==
    CASE glx_entry \in {"-glx_reset", "-glx_reset_tray"} ->
            GlxExit(1) /\ UNCHANGED reset_try_number
      [] glx_entry = "-glx_reset_auto" ->
            /\ reset_try_number' = reset_try_number + 1
            /\ IF reset_try_number + 1 < max_reset_try
               THEN glx_pc' = "ipmi" /\ UNCHANGED glx_exit
               ELSE GlxExit(1)
      [] OTHER ->
            /\ glx_pc' = "raised"
            /\ UNCHANGED <<glx_exit, reset_try_number>>

\* run_wh_ubb_ipmi_reset(ubb_num, dev_num, op_mode, reset_time)
run_wh_ubb_ipmi_reset ==
    /\ glx_pc = "ipmi"
    /\ glx_log' = Append(glx_log, "run_wh_ubb_ipmi_reset")
    /\ \/ glx_pc' = "wait" /\ UNCHANGED <<glx_exit, reset_try_number>>
       \/ GlxRaise
    /\ UNCHANGED <<notGlx, glx_entry, glx_args, chips, link_words, eth_reads>>

\* timed_wait(30); run_ubb_wait_for_driver_load()
run_ubb_wait_for_driver_load ==
    /\ glx_pc = "wait"
    /\ glx_log' = Append(glx_log, "run_ubb_wait_for_driver_load")
    /\ \/ glx_pc' = "reinit" /\ UNCHANGED <<glx_exit, reset_try_number>>
       \/ GlxRaise
    /\ UNCHANGED <<notGlx, glx_entry, glx_args, chips, link_words, eth_reads>>

ChipCounts == {31, 32}

LinkSamples ==
    {{}, {<<0, 9, 0, 10>>}, {<<2, 4, 6, 6>>},
     {<<5, 2, 0, 10>>, <<5, 1, 6, 10>>, <<31, 4, 6, 10>>}}

\* "if not reinit: sys.exit(0)", else detect_chips_with_callback(local_only=True,
\* ignore_ethernet=True): the chips, or an exception and sys.exit(1)
GlxReinit ==
    /\ glx_pc = "reinit"
    /\ IF ~glx_args.reinit
       THEN GlxExit(0) /\ UNCHANGED <<chips, link_words, glx_log>>
       ELSE \/ /\ glx_log' = Append(glx_log, "detect_chips_with_callback")
               /\ chips' \in ChipCounts
               /\ link_words' \in LinkSamples
               /\ glx_pc' = "after_reinit"
               /\ UNCHANGED glx_exit
            \/ /\ glx_log' = Append(glx_log, "detect_chips_with_callback raised")
               /\ GlxExit(1)
               /\ UNCHANGED <<chips, link_words>>
    /\ UNCHANGED <<notGlx, glx_entry, glx_args, reset_try_number, eth_reads>>

\* "if ubb_num == 0xF: check_wh_galaxy_eth_link_status(chips)", then sys.exit(0)
GlxLinkCheckAndExit ==
    /\ glx_pc = "after_reinit"
    /\ IF PyEq(glx_args.ubb_num, PyInt(15))
       THEN LET r == check_wh_galaxy_eth_link_status(chips, link_words)
            IN  /\ eth_reads' = r.reads
                /\ glx_log' = Append(glx_log, "check_wh_galaxy_eth_link_status")
                /\ CASE r.out = "exit" -> GlxExit(1) /\ UNCHANGED reset_try_number
                     [] r.out = "raise" -> GlxRaise
                     [] OTHER -> GlxExit(0) /\ UNCHANGED reset_try_number
       ELSE /\ GlxExit(0)
            /\ UNCHANGED <<eth_reads, glx_log, reset_try_number>>
    /\ UNCHANGED <<notGlx, glx_entry, glx_args, chips, link_words>>

\* check_wh_galaxy_eth_link_status(devices) called on its own
LinkCheckCall ==
    /\ glx_pc = "link_check"
    /\ LET r == check_wh_galaxy_eth_link_status(chips, link_words)
       IN  /\ eth_reads' = r.reads
           /\ glx_log' = Append(glx_log, "check_wh_galaxy_eth_link_status")
           /\ CASE r.out = "exit" -> GlxExit(1) /\ UNCHANGED reset_try_number
                [] r.out = "raise" -> GlxRaise
                [] OTHER -> glx_pc' = "returned" /\ UNCHANGED <<glx_exit, reset_try_number>>
    /\ UNCHANGED <<notGlx, glx_entry, glx_args, chips, link_words>>

\* glx_6u_trays_reset(reinit=True), with the defaults of the other arguments
DefaultArgs == [reinit |-> TRUE, ubb_num |-> PyStr("0xF")]

InitGlx ==
    /\ GlxOnly
    /\ \/ /\ glx_entry \in {"-glx_reset", "-glx_reset_auto"}
          /\ glx_args = DefaultArgs
          /\ glx_pc = "ipmi"
          /\ chips = 0
          /\ link_words = {}
       \/ /\ glx_entry = "-glx_reset_tray"
          /\ glx_args \in [reinit : BOOLEAN, ubb_num : {PyStr("0x1"), PyStr("0x8")}]
          /\ glx_pc = "ipmi"
          /\ chips = 0
          /\ link_words = {}
       \/ /\ glx_entry = "check_wh_galaxy_eth_link_status"
          /\ glx_args = <<>>
          /\ glx_pc = "link_check"
          /\ chips \in ChipCounts
          /\ link_words \in LinkSamples
    /\ reset_try_number = 0
    /\ eth_reads = {}
    /\ glx_log = <<>>
    /\ glx_exit = NoExit

NextGlx ==
    \/ run_wh_ubb_ipmi_reset
    \/ run_ubb_wait_for_driver_load
    \/ GlxReinit
    \/ GlxLinkCheckAndExit
    \/ LinkCheckCall

SpecGlx == InitGlx /\ [][NextGlx]_vars

-----------------------------------------------------------------------------
(* The two resets that can re-enumerate, pci_board_reset and               *)
(* glx_6u_trays_reset, each run on its own                                 *)

InitReinitPolicy == InitPci \/ InitGlx

NextReinitPolicy == NextPci \/ NextGlx

SpecReinitPolicy == InitReinitPolicy /\ [][NextReinitPolicy]_vars

-----------------------------------------------------------------------------
(* The telemetry thread of the GUI (tt_smi.py).  The handlers of the app   *)
(* run one at a time on the event loop; dispatch_telem_thread has no await *)
(* inside, so a handler that calls it runs to its end before the next one  *)
(* starts.  The thread runs beside the event loop.                         *)

MaxActivations == 3

Tabs == {"tab-1", "tab-2", "tab-3"}

\* mutant: the thread is started and the flag is left as it was
dispatch_telem_thread_FlagNotSet ==
    /\ ui_disp' = ui_disp + 1
    /\ ui_sig' = TRUE
    /\ TELEM_THREADS' = Append(TELEM_THREADS, [pc |-> "test", i |-> 0])
    /\ UNCHANGED RUNNING_TELEM_THREAD

\* dispatch_telem_thread: install the signal handlers, start the thread
\* (thread.start() may raise), append it, set the flag
dispatch_telem_thread ==
    /\ ui_disp' = ui_disp + 1
    /\ IF ~RUNNING_TELEM_THREAD
       THEN /\ ui_sig' = TRUE
            /\ \/ /\ TELEM_THREADS' = Append(TELEM_THREADS, [pc |-> "test", i |-> 0])
                  /\ RUNNING_TELEM_THREAD' = TRUE
               \/ UNCHANGED <<TELEM_THREADS, RUNNING_TELEM_THREAD>>
       ELSE UNCHANGED <<ui_sig, TELEM_THREADS, RUNNING_TELEM_THREAD>>

\* on_tabbed_content_tab_activated: the telemetry tab dispatches the thread
on_tabbed_content_tab_activated ==
    /\ ~ui_exited
    /\ ui_n < MaxActivations
    /\ \E tab_id \in Tabs :
          /\ ui_tab' = tab_id
          /\ IF tab_id = "tab-2"
             THEN dispatch_telem_thread
             ELSE UNCHANGED <<ui_disp, ui_sig, TELEM_THREADS, RUNNING_TELEM_THREAD>>
    /\ ui_n' = ui_n + 1
    /\ UNCHANGED <<notUi, ui_devices, ui_exited, INTERRUPT_RECEIVED>>

\* action_quit: set the flag, join the threads for 0.1 s each, exit the app
action_quit ==
    /\ ~ui_exited
    /\ INTERRUPT_RECEIVED' = TRUE
    /\ ui_exited' = TRUE
    /\ UNCHANGED <<notUi, ui_tab, ui_n, ui_disp, ui_devices, ui_sig, RUNNING_TELEM_THREAD,
                   TELEM_THREADS>>

\* interrupt_handler, once dispatch_telem_thread has installed it
interrupt_handler ==
    /\ ui_sig
    /\ ~INTERRUPT_RECEIVED
    /\ INTERRUPT_RECEIVED' = TRUE
    /\ UNCHANGED <<notUi, ui_tab, ui_n, ui_disp, ui_devices, ui_sig, ui_exited,
                   RUNNING_TELEM_THREAD, TELEM_THREADS>>

ThreadStep(t, pc, i) ==
    /\ TELEM_THREADS' = [TELEM_THREADS EXCEPT ![t] = [pc |-> pc, i |-> i]]
    /\ UNCHANGED <<notUi, ui_tab, ui_n, ui_disp, ui_devices, ui_sig, ui_exited,
                   INTERRUPT_RECEIVED, RUNNING_TELEM_THREAD>>

\* update_telem (the thread's target): while not INTERRUPT_RECEIVED; then
\* update_telem_table, which skips the update when the table is not on
\* screen (NoMatches)
TelemLoopTest(t) ==
    /\ TELEM_THREADS[t].pc = "test"
    /\ IF INTERRUPT_RECEIVED
       THEN ThreadStep(t, "exited", 0)
       ELSE \/ ThreadStep(t, "update", 0)
            \/ ThreadStep(t, "sleep", 0)

\* backend.update_telem: for i, _ in enumerate(self.devices), the bus read
\* of get_smbus_board_info(i) begins
UpdateTelemRead(t) ==
    /\ TELEM_THREADS[t].pc = "update"
    /\ TELEM_THREADS[t].i < ui_devices
    /\ ThreadStep(t, "reading", TELEM_THREADS[t].i)

\* the read returns and get_chip_telemetry(i) decodes it, or one of them
\* raises and the thread ends
UpdateTelemNext(t) ==
    /\ TELEM_THREADS[t].pc = "reading"
    /\ \/ ThreadStep(t, "update", TELEM_THREADS[t].i + 1)
       \/ ThreadStep(t, "died", TELEM_THREADS[t].i)

\* the loop over the devices is over: the rows are shown, time.sleep
UpdateTelemDone(t) ==
    /\ TELEM_THREADS[t].pc = "update"
    /\ TELEM_THREADS[t].i >= ui_devices
    /\ ThreadStep(t, "sleep", 0)

TelemWake(t) ==
    /\ TELEM_THREADS[t].pc = "sleep"
    /\ ThreadStep(t, "test", 0)

telem_thread ==
    \E t \in DOMAIN TELEM_THREADS :
        \/ TelemLoopTest(t)
        \/ UpdateTelemRead(t)
        \/ UpdateTelemNext(t)
        \/ UpdateTelemDone(t)
        \/ TelemWake(t)

InitUi ==
    /\ UiOnly
    /\ ui_tab = "tab-1"
    /\ ui_n = 0
    /\ ui_disp = 0
    /\ ui_devices \in {1, 2}
    /\ ui_sig = FALSE
    /\ ui_exited = FALSE
    /\ INTERRUPT_RECEIVED = FALSE
    /\ RUNNING_TELEM_THREAD = FALSE
    /\ TELEM_THREADS = <<>>

NextUi ==
    \/ on_tabbed_content_tab_activated
    \/ action_quit
    \/ interrupt_handler
    \/ telem_thread

SpecUi == InitUi /\ [][NextUi]_vars

-----------------------------------------------------------------------------
(* Properties of the reset sequencer *)

LogLen == Len(bus_log)

IsMailbox(e) == e.op = "arc_msg"

IsEnterSafeClks(e) == e.op = "arc_msg" /\ e.a = <<"MSG_TYPE_RESET_SAFE_CLKS", 1, 0, 0, 0>>

IsExitSafeClks(e) == e.op = "arc_msg" /\ e.a = <<"MSG_TYPE_RESET_SAFE_CLKS", 0, 0, 0, 0>>

MailboxIndices == {i \in 1..LogLen : IsMailbox(bus_log[i])}

LastMailboxIsExit ==
    /\ MailboxIndices # {}
    /\ IsExitSafeClks(bus_log[Max(MailboxIndices)])

\* the enter-safe-clock call was issued and returned
EnteredSafeClks == \E i \in 1..LogLen : IsEnterSafeClks(bus_log[i]) /\ bus_log[i].ok

\* the calls of the try block that raised
RaisedInTry == {i \in 1..LogLen : ~bus_log[i].ok /\ ~IsMailbox(bus_log[i])}

ResetLog == IF override THEN bus_log ELSE SubSeq(bus_log, 2, LogLen)

IsArcWrite(e, reg, i) == e.op = "write32" /\ e.a = <<reg, i, 0, 0, 0>> /\ e.ok

NocConfigOps == {"write_fields", "noc_write32", "pci_axi_write32"}

\* C2: in a run of tensix_reset that raises nothing the bus operations are,
\* in this order: the enter-safe-clock call; 0 to RISCV_RESET[0..7]; 0 to
\* TENSIX_RESET[0..7], then 0xFFFFFFFF to TENSIX_RESET[0..7]; the writes of
\* setup_noc, all of them; the soft-reset broadcast; a word to each of
\* RISCV_RESET[0..7]; the exit-safe-clock call.  Every array register gets
\* all its 8 words.
C2_StepOrder ==
    (gs_pc = "done" /\ ~gs_exc) =>
        LET L == ResetLog
            n == Len(L)
        IN  /\ n > 36
            /\ IsEnterSafeClks(L[1]) /\ L[1].ok
            /\ \A i \in 0..7 :
                  /\ IsArcWrite(L[2 + i], "ARC_RESET.RISCV_RESET", i) /\ L[2 + i].v = {}
                  /\ IsArcWrite(L[10 + i], "ARC_RESET.TENSIX_RESET", i) /\ L[10 + i].v = {}
                  /\ IsArcWrite(L[18 + i], "ARC_RESET.TENSIX_RESET", i) /\ L[18 + i].v = WORD32
                  /\ IsArcWrite(L[n - 8 + i], "ARC_RESET.RISCV_RESET", i)
            /\ \A k \in 26..(n - 10) : L[k].op \in NocConfigOps /\ L[k].ok
            /\ \A x \in 0..(GRID_SIZE_X - 1), y \in 0..(GRID_SIZE_Y - 1) :
                  \E k \in 26..(n - 10) :
                      /\ L[k].a[5] = ROUTER_CFG_3
                      /\ \/ L[k].op = "pci_axi_write32"
                         \/ (L[k].a[2] = 0 /\ L[k].a[3] = x /\ L[k].a[4] = y)
            /\ L[n - 9].op = "noc_broadcast32" /\ L[n - 9].v = SOFT_RESET_WORD
            /\ IsExitSafeClks(L[n]) /\ L[n].ok

\* a run that raised nothing, on a chip with harvested rows
C2_Witness ==
    /\ gs_pc = "done"
    /\ ~gs_exc
    /\ harvested_rows # {}
    /\ \E i \in 1..LogLen : bus_log[i].op = "noc_broadcast32"

\* the bad rows of a fuse value: bit b of the memory or of the logic group
BadBits == {b \in 0..9 : b \in fuse \/ (b + 10) \in fuse}

\* C3: get_harvested_rows maps the bad bits of the fuse value one-to-one onto
\* rows of {1..5, 7..11} (never row 0 or 6), and get_core_list is the columns
\* 1..12 times the rows of {1..5, 7..11} not harvested: 12 * (10 - popcount)
\* cores.
C3_HarvestingCoverage ==
    gs_pc = "ready" =>
        /\ harvested_rows \subseteq {1, 2, 3, 4, 5, 7, 8, 9, 10, 11}
        /\ Cardinality(harvested_rows) = Cardinality(BadBits)
        /\ \A x \in 0..12, y \in 0..11 :
              <<x, y>> \in core_list <=>
                  (1 <= x /\ x <= 12 /\ y \in {1, 2, 3, 4, 5, 7, 8, 9, 10, 11} /\ y \notin harvested_rows)
        /\ \A c \in core_list : c[1] \in 0..12 /\ c[2] \in 0..11
        /\ Cardinality(core_list) = 12 * (10 - Cardinality(BadBits))

\* a fuse value with bad memory rows and bad logic rows, one of them bad in both
C3_Witness ==
    /\ gs_pc = "ready"
    /\ \E b \in 0..9 : b \in fuse /\ (b + 10) \in fuse
    /\ \E b \in 0..9 : b \in fuse /\ (b + 10) \notin fuse
    /\ \E b \in 0..9 : b \notin fuse /\ (b + 10) \in fuse
    /\ Cardinality(harvested_rows) = 4

-----------------------------------------------------------------------------
(* Properties of Registers *)

\* the two calls just made are a write32 that returned and a read32 of the same path
WroteThenRead ==
    /\ reg_prev.op = "write32"
    /\ ~reg_prev.raised
    /\ reg_last.op = "read32"
    /\ reg_last.path = reg_prev.path

\* the value of a call fits the mask of its path
FitsMask(call) ==
    /\ ~get_path_info(call.path).raised
    /\ call.data \subseteq get_path_info(call.path).mask

\* C4 as stated: for every register path, whole register or field, of a
\* 32-bit or a 64-bit register, and every value within the mask of the
\* path, write32(path, v) followed at once by read32(path) returns v
C4_RoundTrip ==
    /\ (reg_last.op = "write32" /\ FitsMask(reg_last)) => ~reg_last.raised
    /\ WroteThenRead => (~reg_last.raised /\ reg_last.result = reg_prev.data)

\* a field value of a write_fields call that does not fit the mask of its field
BadFieldValue(call) ==
    /\ ~get_path_info(call.path).raised
    /\ \E k \in 1..Len(call.fields) :
          /\ call.fields[k][1] \in DOMAIN get_path_info(call.path).Fields
          /\ ~(call.fields[k][2] \subseteq
                 get_mask_and_shift(get_path_info(call.path).Fields[call.fields[k][1]],
                                    get_path_info(call.path).Regsize)[1])

\* the call raised without reading or writing the bus
RefusedUntouched(call) ==
    /\ call.raised
    /\ call.log = <<>>

ValueRefused(call) ==
    /\ (call.op = "write32" /\ ~get_path_info(call.path).raised
            /\ ~(call.data \subseteq get_path_info(call.path).mask))
       => RefusedUntouched(call)
    /\ (call.op = "write_fields" /\ BadFieldValue(call)) => RefusedUntouched(call)

\* C5: write32 with a value that does not fit the mask of the path raises
\* without any bus read or write, and so does write_fields when a supplied
\* field value does not fit its field; the bus is as it was before the call
C5_ValueRangeRefused ==
    /\ ValueRefused(reg_last)
    /\ (reg_last.op \in {"write32", "write_fields"} /\ reg_last.raised) => bus = reg_last.before

\* a write32 of a value too wide for a field, then a write_fields with a field
\* value too wide, on a bus that holds data: both were refused
C5_Witness ==
    /\ reg_prev.op = "write32"
    /\ reg_prev.path.field # ""
    /\ reg_prev.data # {}
    /\ ~FitsMask(reg_prev)
    /\ reg_prev.raised
    /\ reg_last.op = "write_fields"
    /\ BadFieldValue(reg_last)
    /\ reg_last.raised
    /\ \E a \in BusAddrs : bus[a] # {}

-----------------------------------------------------------------------------
(* Properties of the chassis reset *)

MoboLogLen == Len(mobo_log)

\* thread c has run function fn to its end without raising
RanToCompletion(c, fn) ==
    \E i \in 1..MoboLogLen : mobo_log[i] = MoboEvent("end", c, fn, TRUE)

\* a thread raised and the failure was reported
FailureReported == \E i \in 1..MoboLogLen : mobo_log[i].ev = "report"

Raisers == {mobo_log[i].c : i \in {j \in 1..MoboLogLen : mobo_log[j].ev = "end" /\ ~mobo_log[j].ok}}

\* C6 as stated: when a chassis thread raises under warm_reset_mobo, each of
\* the four reset actions has run to completion for every other chassis by
\* the time the failure is reported
C6_AsStated ==
    (mobo_entry = "warm_reset_mobo" /\ FailureReported) =>
        \A c \in DOMAIN mobo_dict_list \ Raisers :
            \A k \in DOMAIN Targets : RanToCompletion(c, Targets[k])

\* C6, amended: when a thread raises during an action, the failure is
\* reported (exit status 1) only after the thread of every other chassis has
\* finished that same action; threaded_mobo_reset never returns normally
\* after a thread raised, and no thread of a later action is started
C6_SameActionCompleted ==
    /\ FailureReported =>
          /\ mobo_exit = 1
          /\ \A c \in DOMAIN mobo_dict_list :
                \E i \in 1..MoboLogLen :
                    /\ mobo_log[i].ev = "end"
                    /\ mobo_log[i].c = c
                    /\ mobo_log[i].fn = mobo_log[MoboLogLen].fn
    /\ \A i \in 1..MoboLogLen : \A j \in (i + 1)..MoboLogLen :
          (mobo_log[i].ev = "end" /\ ~mobo_log[i].ok) =>
              /\ mobo_log[j].ev # "return"
              /\ mobo_log[j].fn = mobo_log[i].fn

\* warm_reset_mobo over three chassis: chassis 2 raised in the first action,
\* chassis 1 and 3 finished it afterwards, then the failure was reported
C6_Witness ==
    /\ mobo_entry = "warm_reset_mobo"
    /\ mobo_pc = "exit"
    /\ Len(mobo_dict_list) = 3
    /\ FailureReported
    /\ \E i \in 1..MoboLogLen : \E j \in (i + 1)..MoboLogLen : \E m \in (i + 1)..MoboLogLen :
          /\ mobo_log[i] = MoboEvent("end", 2, "credo_boot", FALSE)
          /\ mobo_log[j] = MoboEvent("end", 1, "credo_boot", TRUE)
          /\ mobo_log[m] = MoboEvent("end", 3, "credo_boot", TRUE)

\* every thread started before position i of the log has ended before it
AllEndedBefore(i) ==
    \A j \in 1..(i - 1) :
        mobo_log[j].ev = "start" =>
            \E m \in (j + 1)..(i - 1) :
                /\ mobo_log[m].ev = "end"
                /\ mobo_log[m].c = mobo_log[j].c
                /\ mobo_log[m].fn = mobo_log[j].fn

\* C7: threaded_mobo_reset returns or ends the process only when every thread
\* it started has finished, whether or not threads raised; under
\* warm_reset_mobo a thread of action k+1 starts only after the thread of
\* every chassis has finished action k
C7_JoinAll ==
    /\ mobo_pc \in {"returned", "mobo_list", "raised", "exit"} =>
          \A c \in DOMAIN all_threads : all_threads[c].st = "finished"
    /\ \A i \in 1..MoboLogLen :
          /\ mobo_log[i].ev \in {"return", "report"} => AllEndedBefore(i)
          /\ (mobo_log[i].ev = "start" /\ Stage(mobo_log[i].fn) > 1
                    /\ mobo_entry = "warm_reset_mobo") =>
                \A c \in DOMAIN mobo_dict_list :
                    \E m \in 1..(i - 1) :
                        /\ mobo_log[m].ev = "end"
                        /\ mobo_log[m].c = c
                        /\ Stage(mobo_log[m].fn) = Stage(mobo_log[i].fn) - 1

\* threaded_mobo_reset(boot_modules) returned: the thread started first was
\* the last to finish, and a thread that raised ended the process in another
\* run (C6_Witness); here no thread raised
C7_Witness ==
    /\ mobo_entry = "threaded_mobo_reset"
    /\ mobo_pc = "returned"
    /\ Len(all_threads) >= 2
    /\ mobo_log[MoboLogLen] = MoboEvent("return", 0, "boot_modules", TRUE)
    /\ mobo_log[MoboLogLen - 1] = MoboEvent("end", 1, "boot_modules", TRUE)

-----------------------------------------------------------------------------
(* Properties of pci_board_reset *)

IsWh(pci_idx) == chip_kind[pci_idx] = "wh"

IsBh(pci_idx) == chip_kind[pci_idx] = "bh"

IsUnknown(pci_idx) == chip_kind[pci_idx] \notin {"none", "wh", "bh"}

Opens(pci_idx) == chip_kind[pci_idx] # "none"

\* the entries of the request that are of the variant of routine fn
GroupOf(fn) ==
    IF fn = "WHChipReset" THEN SelectSeq(list_of_boards, IsWh) ELSE SelectSeq(list_of_boards, IsBh)

\* the entries of list_of_boards the classification loop is done with
Classified == SubSeq(list_of_boards, 1, pci_k - 1)

CallsOf(fn) == {i \in DOMAIN pci_calls : pci_calls[i].fn = fn}

ReturnsOf(fn) == {i \in DOMAIN pci_calls : pci_calls[i].fn = "return" /\ pci_calls[i].arg = fn}

ResetRoutines == {"WHChipReset", "BHChipReset"}

\* the routine fn was called once, with the entries of the request of its
\* variant, in the order of the request, and has returned
InvokedOnceWith(fn, group) ==
    /\ Cardinality(CallsOf(fn)) = 1
    /\ \A i \in CallsOf(fn) : pci_calls[i].arg = group
    /\ Cardinality(ReturnsOf(fn)) = 1

RequestHasUnknown == \E k \in DOMAIN list_of_boards : IsUnknown(list_of_boards[k])

\* C9: when a chip of the request opens and is neither Wormhole nor
\* Blackhole, no reset routine is ever called and nothing is re-enumerated:
\* once the loop reaches that chip the process exits with status 1
C9_UnknownChipFailsFirst ==
    RequestHasUnknown =>
        /\ pci_calls = <<>>
        /\ pci_pc \in {"classify", "exit"}
        /\ pci_k <= Len(list_of_boards)
        /\ pci_pc = "exit" <=> pci_exit = 1
        /\ pci_pc = "exit" => IsUnknown(list_of_boards[pci_k])

\* a Blackhole and a Wormhole chip were classified, then the unknown chip
\* ended the process before any reset
C9_Witness ==
    /\ pci_pc = "exit"
    /\ pci_exit = 1
    /\ reset_wh_pci_idx # <<>>
    /\ reset_bh_pci_idx # <<>>
    /\ IsUnknown(list_of_boards[pci_k])
    /\ pci_calls = <<>>

-----------------------------------------------------------------------------
(* Properties of the galaxy reset *)

\* the link check has read the debug word of each of the 16 ports of every
\* enumerated chip
AllPortsRead ==
    \A i \in 0..(chips - 1) : \A eth \in 1..16 :
        <<i, 0, eth_locations_noc_0[eth][1], eth_locations_noc_0[eth][2], LinkWordAddr>> \in eth_reads

\* a port of an enumerated chip reads the link-inactive sentinel
SomeLinkInactive ==
    \E i \in 0..(chips - 1) : \E eth \in 1..16 :
        link_word(link_words, i, eth_locations_noc_0[eth][1], eth_locations_noc_0[eth][2])
            = LINK_INACTIVE_FAIL_DUMMY_PACKET

\* C10 as stated: under -glx_reset and -glx_reset_auto (glx_6u_trays_reset
\* with its default arguments) the process exits with status 0 only after the
\* link check has read all 16 ports of every enumerated chip, and never
\* while a port reads the sentinel 10
C10_LinkCheckedBeforeExit0 ==
    (glx_entry \in {"-glx_reset", "-glx_reset_auto"} /\ glx_exit = 0) =>
        /\ AllPortsRead
        /\ ~SomeLinkInactive

\* the attempts started: one run_wh_ubb_ipmi_reset call opens each
Attempts == Cardinality({i \in DOMAIN glx_log : glx_log[i] = "run_wh_ubb_ipmi_reset"})

\* C11: under -glx_reset_auto at most 3 attempts are started; nothing is
\* started once the process has exited, in particular after an attempt that
\* succeeded (exit status 0); the third failed attempt ends the process with
\* exit status 1
C11_BoundedRetry ==
    glx_entry = "-glx_reset_auto" =>
        /\ Attempts <= max_reset_try
        /\ reset_try_number <= max_reset_try
        /\ Attempts \in {reset_try_number, reset_try_number + 1}
        /\ glx_pc = "ipmi" => Attempts = reset_try_number
        /\ glx_exit # NoExit <=> glx_pc = "exit"
        /\ glx_pc = "exit" => ~ENABLED NextGlx
        /\ reset_try_number = max_reset_try => (glx_pc = "exit" /\ glx_exit = 1)

\* three attempts were started, each raised, and the process exited with 1
C11_Witness ==
    /\ glx_entry = "-glx_reset_auto"
    /\ Attempts = 3
    /\ reset_try_number = 3
    /\ glx_exit = 1

\* C12 as stated: under -glx_reset_auto an attempt that fails at any stage,
\* re-enumeration included, is followed by a new attempt while fewer than 3
\* have been made, so the process exits with status 1 only after the third
\* failed attempt
C12_EveryFailureRetried ==
    (glx_entry = "-glx_reset_auto" /\ glx_exit = 1) =>
        /\ Attempts = max_reset_try
        /\ reset_try_number = max_reset_try

-----------------------------------------------------------------------------
(* Properties of the re-enumeration policy *)

DetectNames == {"detect_chips_with_callback", "detect_chips_with_callback raised"}

PciDetects == {i \in DOMAIN pci_calls : pci_calls[i].fn \in DetectNames}

GlxDetects == {i \in DOMAIN glx_log : glx_log[i] \in DetectNames}

GlxFromMain == glx_entry \in {"-glx_reset", "-glx_reset_auto", "-glx_reset_tray"}

\* pci_board_reset: no enumeration without reinit; with it, one enumeration,
\* after every reset routine called has returned; a failed one ends the
\* process with status 1 and pci_board_reset does not return
PciReinitPolicy ==
    /\ ~reinit => PciDetects = {}
    /\ \A i \in PciDetects :
          /\ i = Len(pci_calls)
          /\ \A fn \in ResetRoutines : \A j \in CallsOf(fn) : \E r \in ReturnsOf(fn) : j < r /\ r < i
          /\ pci_calls[i].fn = "detect_chips_with_callback raised" =>
                (pci_pc = "exit" /\ pci_exit = 1)
    /\ (reinit /\ pci_pc = "returned") =>
          (pci_calls # <<>> /\ pci_calls[Len(pci_calls)].fn = "detect_chips_with_callback")

\* glx_6u_trays_reset: no enumeration without reinit; with it, enumeration
\* follows the ipmi reset and the wait for the driver of the same attempt; a
\* failed one ends the process with status 1, and status 0 is reached only
\* after an enumeration that succeeded
GlxReinitPolicy ==
    GlxFromMain =>
        /\ ~glx_args.reinit => GlxDetects = {}
        /\ \A i \in GlxDetects :
              /\ i > 2
              /\ glx_log[i - 2] = "run_wh_ubb_ipmi_reset"
              /\ glx_log[i - 1] = "run_ubb_wait_for_driver_load"
              /\ glx_log[i] = "detect_chips_with_callback raised" =>
                    (i = Len(glx_log) /\ glx_pc = "exit" /\ glx_exit = 1)
        /\ (glx_args.reinit /\ glx_exit = 0) =>
              \E i \in GlxDetects : glx_log[i] = "detect_chips_with_callback"

\* C13: when re-enumeration is not requested no enumeration is performed;
\* when it is requested it is performed after the reset, and when it fails
\* the process exits with status 1, never returning or exiting with 0
C13_ReinitPolicy == PciReinitPolicy /\ GlxReinitPolicy

\* pci_board_reset(reinit=True): a reset routine was called and returned,
\* then re-enumeration raised and the process exited with status 1
C13_Witness ==
    /\ reinit
    /\ pci_pc = "exit"
    /\ pci_exit = 1
    /\ Len(pci_calls) >= 3
    /\ pci_calls[Len(pci_calls)].fn = "detect_chips_with_callback raised"


\* the names of the fields a write_fields call supplies
Supplied(call) == {call.fields[k][1] : k \in 1..Len(call.fields)}

\* every field of the register of the call is supplied, each value within
\* the mask of its field
EveryFieldSupplied(call) ==
    /\ ~get_path_info(call.path).raised
    /\ Supplied(call) = DOMAIN get_path_info(call.path).Fields
    /\ ~BadFieldValue(call)

\* the call put at least one word on the bus
BusWritten(call) == \E k \in 1..Len(call.log) : call.log[k][1] = "write"

SuppliedBits(call) ==
    LET pi == get_path_info(call.path) IN
    UNION {Shl(get_mask_and_shift(pi.Fields[f], pi.Regsize)[1],
               get_mask_and_shift(pi.Fields[f], pi.Regsize)[2]) :
           f \in Supplied(call) \cap DOMAIN pi.Fields}

\* every bit of the register belongs to a field the call supplies
CoversRegister(call) ==
    SuppliedBits(call) = get_mask_for_regsize(get_path_info(call.path).Regsize)

SchemaValid(filename) ==
    /\ filename \in DOMAIN SchemaFiles
    /\ \A k \in DOMAIN SchemaFiles[filename] :
          LET regdef == SchemaFiles[filename][k].regdef IN
          /\ regdef.has_Regsize
          /\ sanity_check(regdef)

\* the register table of the space is loaded and passes the check
LoadedAndChecked(space) ==
    /\ space.loaded_yaml = "loaded"
    /\ sanity_check(space.yaml)

\* C14: a load succeeds only for a schema in which every register file has a
\* Regsize and every field has msb >= lsb, also after an earlier failed load
\* of the same path, and every address space of every cached map has its
\* register table loaded and checked.
C14_AsStated ==
    /\ (ld_last # NoCall /\ ld_last.raised = "") => SchemaValid(ld_last.filename)
    /\ \A f \in DOMAIN cached_registers :
          \A k \in DOMAIN cached_registers[f] : LoadedAndChecked(cached_registers[f][k])


(***************************************************************************)
(* Telemetry decoding                                                      *)
(***************************************************************************)
\* the tags the table leaves unpopulated
AbsentTags == {tag \in TelemTags : ~smbus_telem_info[tag].some}

\* C16: for every architecture and every telemetry table with any set of
\* tags absent, get_chip_telemetry, get_chip_limits, get_firmware_versions
\* and get_board_id complete without raising, every firmware field whose tag
\* is absent decodes to "N/A", and so does the board id when its tags are
\* absent.
C16_NeverRaisesOnAbsentTags ==
    /\ tm_last.op \in {"get_chip_telemetry", "get_chip_limits",
                       "get_firmware_versions", "get_board_id"}
          => ~tm_last.raised
    /\ tm_last.op = "get_firmware_versions"
          => \A field \in DOMAIN FwTag :
                FwTag[field] \in AbsentTags => tm_last.result[field] = NA
    /\ (tm_last.op = "get_board_id"
            /\ {"BOARD_ID", "BOARD_ID_LOW", "BOARD_ID_HIGH"} \subseteq AbsentTags)
          => tm_last.result = BoardIdNA


(***************************************************************************)
(* Decoders                                                                *)
(***************************************************************************)
\* C17: for the input 0x00000000 and for the input 0xFFFFFFFF each of
\* hex_to_semver, hex_to_semver_eth, hex_to_semver_m3_fw and hex_to_date
\* returns "N/A", and none raises.
C17_SentinelsGiveNA ==
    (/\ tm_last.op \in {"hex_to_semver", "hex_to_semver_eth", "hex_to_semver_m3_fw",
                        "hex_to_date"}
     /\ dec_in.v \in {{}, WORD32})
        => (~tm_last.raised /\ tm_last.result = NA)

\* bits 31:16 of the word read as a signed 16-bit two's-complement number
SignedHigh(w) ==
    IF 31 \in w THEN Val(Shr(w, 16)) - 65536 ELSE Val(Shr(w, 16))

\* C18: convert_signed_16_16_to_float gives bits 31:16 as a signed 16-bit
\* integer part plus bits 15:0 over 65536, so that 65536 * result is the word
\* read as a signed 32-bit integer; 0x003C0000 gives 60, 0xFFF60000 gives -10
\* and 0x80000000 gives -32768.
C18_SignedFixedPoint ==
    tm_last.op = "convert_signed_16_16_to_float" =>
        /\ tm_last.result.int = SignedHigh(dec_in.v)
        /\ tm_last.result.frac = Val(dec_in.v \cap Bits(0, 15))
        /\ dec_in.v = {18, 19, 20, 21} => tm_last.result = [int |-> 60, frac |-> 0]
        /\ dec_in.v = {17, 18} \cup Bits(20, 31) => tm_last.result = [int |-> 0 - 10, frac |-> 0]
        /\ dec_in.v = {31} => tm_last.result = [int |-> 0 - 32768, frac |-> 0]

\* the UPI field of the board id: bits 55:36
UpiOf(id) == Val(Shr(id, 36) \cap Bits(0, 19))

\* the 17 known UPIs and their model names
KnownBoards ==
    {<<3, "e150">>, <<10, "e300">>, <<7, "e75">>, <<8, "nb_cb">>, <<11, "wh_4u">>,
     <<20, "n300">>, <<24, "n150">>, <<53, "tt-galaxy-wh">>, <<54, "bh-scrappy">>,
     <<67, "p100a">>, <<64, "p150a">>, <<65, "p150b">>, <<66, "p150c">>, <<68, "p300b">>,
     <<69, "p300a">>, <<70, "p300c">>, <<71, "tt-galaxy-bh">>}

\* C19: get_board_type is a total lookup on the UPI field (bits 55:36) of the
\* board id: each of the 17 known UPIs gives its model name, every other UPI
\* gives "N/A", whatever bits 35:0 of the board id are.
C19_BoardTypeLookup ==
    (tm_last.op = "get_board_type" /\ ~dec_in.na) =>
        /\ \A kb \in KnownBoards : UpiOf(dec_in.v) = kb[1] => tm_last.result = kb[2]
        /\ UpiOf(dec_in.v) \notin {kb[1] : kb \in KnownBoards} => tm_last.result = "N/A"
        /\ ~tm_last.raised

\* a known board whose id has bits set below and above the UPI field
C19_Witness ==
    /\ tm_last.op = "get_board_type"
    /\ ~dec_in.na
    /\ UpiOf(dec_in.v) = 71
    /\ Bits(0, 35) \subseteq dec_in.v
    /\ 63 \in dec_in.v
    /\ tm_last.result = "tt-galaxy-bh"


(***************************************************************************)
(* Waiting for the boot of a chassis                                       *)
(***************************************************************************)
\* the server is 0.3.0 or newer
NewServer == server_version # <<>> /\ ~TupleLess(server_version, <<0, 3, 0>>)

\* C20: for a management server of version >= 0.3.0 wait_for_boot_complete
\* ends in one of two ways only: it returns normally after a poll reported a
\* boot progress of 100 or more, or it raises the timeout error once the
\* elapsed time exceeds the timeout; it never returns normally otherwise.
\* No poll is ever made here, so no progress of 100 is ever reported and a
\* normal return cannot be one that followed such a poll.
C20_ReturnsOrTimesOut ==
    NewServer =>
        /\ boot_pc # "returned"
        /\ boot_pc = "raised" => boot_exc = "timeout"

-----------------------------------------------------------------------------
(* Properties of the deassert masks *)

\* the physical coordinate whose routing coordinate is rout
PhysOf(limit, rout) ==
    CHOOSE p \in 0..(limit - 1) : _physical_to_routing(limit, p) = rout

\* the reset bit of the core at NOC0 (x, y): (phys_x - 1) * 12 + (phys_y - 1)
CoreBit(c) == (PhysOf(GRID_SIZE_X, c[1]) - 1) * 12 + (PhysOf(GRID_SIZE_Y, c[2]) - 1)

ComputeCores == {<<x, y>> : x \in 1..12, y \in TENSIX_ROWS}

\* the soft-reset broadcast in the log (at most 8 writes and the exit call
\* follow it), 0 when it has not been issued
BroadcastAt ==
    IF \E k \in 1..LogLen : LogLen - k < 10 /\ bus_log[k].op = "noc_broadcast32"
    THEN CHOOSE k \in 1..LogLen : LogLen - k < 10 /\ bus_log[k].op = "noc_broadcast32"
    ELSE 0

\* the writes of all_riscs_deassert_hard_reset that returned
DeassertWrites ==
    IF gs_pc \in {"deassert", "finally", "done"} /\ BroadcastAt > 0
    THEN {k \in (BroadcastAt + 1)..LogLen :
            /\ bus_log[k].op = "write32" /\ bus_log[k].ok
            /\ bus_log[k].a[1] = "ARC_RESET.RISCV_RESET"}
    ELSE {}

\* the bit indices 32 * word + bit set in the words written
DeassertBits ==
    UNION {{32 * bus_log[k].a[2] + b : b \in bus_log[k].v} : k \in DeassertWrites}

\* C21: in the 8 words all_riscs_deassert_hard_reset writes to
\* RISCV_RESET[0..7] a bit is set exactly when it is the reset bit of an
\* enabled core, the bit of the core at NOC0 (x, y) being
\* (phys_x - 1) * 12 + (phys_y - 1), word = index div 32, bit = index mod 32.
\* Distinct compute cores have distinct bits, every index is below 256, so
\* the number of set bits is the number of enabled cores and no bit of a
\* harvested core is set.
C21_DeassertMask ==
    /\ \A k \in DeassertWrites :
          /\ bus_log[k].a[2] \in 0..7
          /\ bus_log[k].v \subseteq 0..31
          /\ \A b \in 0..31 :
                b \in bus_log[k].v <=>
                    \E c \in core_list : CoreBit(c) = 32 * bus_log[k].a[2] + b
    /\ (gs_pc = "done" /\ ~gs_exc) =>
          /\ {bus_log[k].a[2] : k \in DeassertWrites} = 0..7
          /\ Cardinality(DeassertWrites) = 8
          /\ DeassertBits = {CoreBit(c) : c \in core_list}
          /\ Cardinality(DeassertBits) = Cardinality(core_list)
          /\ \A c \in ComputeCores : c[2] \in harvested_rows => CoreBit(c) \notin DeassertBits
    /\ gs_pc = "ready" =>
          /\ \A c \in ComputeCores : CoreBit(c) \in 0..255
          /\ \A c, d \in ComputeCores : CoreBit(c) = CoreBit(d) => c = d

\* the 8 words were written on a chip with harvested rows and enabled cores
C21_Witness ==
    /\ gs_pc = "done"
    /\ ~gs_exc
    /\ Cardinality(DeassertWrites) = 8
    /\ harvested_rows # {}
    /\ core_list # {}
    /\ \E k \in DeassertWrites : bus_log[k].v # {}

-----------------------------------------------------------------------------
(* Properties of the NOC configuration *)

GridNodes == {<<x, y>> : x \in 0..(GRID_SIZE_X - 1), y \in 0..(GRID_SIZE_Y - 1)}

\* the NOC register block of the node at NOC0 (x, y), seen from NOC noc_id
NodeBase(noc_id, x, y) ==
    IF <<x, y>> \in DRAM_LOCATIONS THEN (IF noc_id = 0 THEN "0xFFFF4000" ELSE "0xFFFF5000")
    ELSE IF <<x, y>> \in ARC_LOCATIONS THEN (IF noc_id = 0 THEN "0x1FF50000" ELSE "0x1FF58000")
    ELSE IF <<x, y>> \in PCI_LOCATIONS THEN (IF noc_id = 0 THEN "0x1FD00000" ELSE "0x1FD08000")
    ELSE (IF noc_id = 0 THEN "0xFFB20000" ELSE "0xFFB30000")

\* the register at offset off of that block: the ARC and the PCI node are
\* reached over AXI, the others over the NOC at their coordinate on noc_id
NodeKey(noc_id, x, y, off) ==
    IF <<x, y>> \in ARC_LOCATIONS \cup PCI_LOCATIONS
    THEN AxiKey(NodeBase(noc_id, x, y), off)
    ELSE IF noc_id = 0 THEN NocKey(0, x, y, NodeBase(0, x, y), off)
    ELSE NocKey(1, 12 - x, 11 - y, NodeBase(1, x, y), off)

\* the value a register holds: the last value written, else its initial value
RegNow(k) == IF k \in DOMAIN noc THEN noc[k] ELSE noc_init

\* setup_noc has returned
SetupNocDone ==
    \/ gs_pc \in {"soft_reset", "deassert"}
    \/ gs_pc \in {"finally", "done"} /\ BroadcastAt > 0

\* the coordinates a broadcast reaches under a column mask and a row mask
BroadcastEnabled(cfg_1, cfg_3) == {c \in GridNodes : c[1] \notin cfg_1 /\ c[2] \notin cfg_3}

\* C22: assert_all_riscv_soft_reset issues exactly one broadcast, on NOC0,
\* of the bits 11, 12, 13, 14 and 18 to 0xFFB121B0; and for every fuse value
\* the router configuration setup_noc has written (column 0 disabled, rows 0
\* and 6 disabled, every harvested row disabled, the NOC1 masks the mirror
\* image of the NOC0 masks) leaves broadcast enabled for exactly the enabled
\* cores.
C22_BroadcastReachesEnabledCores ==
    /\ \A k \in 1..LogLen : bus_log[k].op = "noc_broadcast32" =>
          /\ k = BroadcastAt
          /\ bus_log[k].a = <<"0xFFB121B0", 0, 0, 0, 0>>
          /\ bus_log[k].v = {11, 12, 13, 14, 18}
    /\ (gs_pc = "done" /\ ~gs_exc) => BroadcastAt > 0 /\ bus_log[BroadcastAt].ok
    /\ SetupNocDone =>
          \A c \in GridNodes :
             LET r1n0 == RegNow(NodeKey(0, c[1], c[2], ROUTER_CFG_1))
                 r3n0 == RegNow(NodeKey(0, c[1], c[2], ROUTER_CFG_3))
                 r1n1 == RegNow(NodeKey(1, c[1], c[2], ROUTER_CFG_1))
                 r3n1 == RegNow(NodeKey(1, c[1], c[2], ROUTER_CFG_3))
             IN  /\ r1n0 = {0}
                 /\ {0, 6} \cup harvested_rows \subseteq r3n0
                 /\ BroadcastEnabled(r1n0, r3n0) = core_list
                 /\ r1n1 = {12 - x : x \in r1n0}
                 /\ r3n1 = {11 - y : y \in r3n0}
                 /\ BroadcastEnabled(r1n1, r3n1) = {<<12 - d[1], 11 - d[2]>> : d \in core_list}

\* the broadcast went out on a chip with some rows harvested and some not
C22_Witness ==
    /\ gs_pc = "done"
    /\ ~gs_exc
    /\ BroadcastAt > 0
    /\ bus_log[BroadcastAt].ok
    /\ Cardinality(harvested_rows) = 5
    /\ Cardinality(core_list) = 60

\* C23 as stated: after setup_noc, for every one of the 13 x 12 grid
\* coordinates, the DRAM, ARC and PCI nodes included, and on both NOCs,
\* ROUTER_CFG_0 has the clock-gating bit 0 set and the backoff field (bits
\* 11:8) equal to 0xF, NIU_CFG_0 has bit 0 set, and ROUTER_CFG_1 and
\* ROUTER_CFG_3 hold the computed broadcast-disable masks.
C23_EveryNodeConfigured ==
    SetupNocDone =>
        \A c \in GridNodes, noc_id \in {0, 1} :
            /\ 0 \in RegNow(NodeKey(noc_id, c[1], c[2], ROUTER_CFG_0))
            /\ {8, 9, 10, 11} \subseteq RegNow(NodeKey(noc_id, c[1], c[2], ROUTER_CFG_0))
            /\ 0 \in RegNow(NodeKey(noc_id, c[1], c[2], NIU_CFG_0))
            /\ RegNow(NodeKey(noc_id, c[1], c[2], ROUTER_CFG_1)) =
                  (IF noc_id = 0 THEN {0} ELSE {12})
            /\ RegNow(NodeKey(noc_id, c[1], c[2], ROUTER_CFG_3)) =
                  (IF noc_id = 0 THEN {0, 6} \cup harvested_rows
                   ELSE {11 - y : y \in {0, 6} \cup harvested_rows})

\* the writes to NIU_CFG_0 in the log that reach a register of node c
NiuWritesTo(c) ==
    {k \in 1..LogLen :
        /\ bus_log[k].op \in {"noc_write32", "pci_axi_write32"}
        /\ bus_log[k].a[5] = NIU_CFG_0
        /\ \E noc_id \in {0, 1} :
              NodeKey(noc_id, c[1], c[2], NIU_CFG_0) =
                  (IF bus_log[k].op = "pci_axi_write32"
                   THEN AxiKey(bus_log[k].a[1], NIU_CFG_0)
                   ELSE NocKey(bus_log[k].a[2], bus_log[k].a[3], bus_log[k].a[4],
                               bus_log[k].a[1], NIU_CFG_0))}

\* C24: after setup_noc, for every compute-core coordinate (x in 1..12, y in
\* {1..5, 7..11}) bit 12 of NIU_CFG_0 is 1 when row y is harvested and 0
\* otherwise, on NOC0 at (x, y) and on NOC1 at the mirrored coordinate
\* (12 - x, 11 - y), the other bits being as read just before (the initial
\* value with bit 0 set); for every other coordinate bit 12 is never
\* modified, by any write, in any state.
C24_TileClockDisable ==
    /\ SetupNocDone =>
          \A c \in ComputeCores, noc_id \in {0, 1} :
              LET r == RegNow(NodeKey(noc_id, c[1], c[2], NIU_CFG_0))
              IN  /\ 12 \in r <=> c[2] \in harvested_rows
                  /\ r \ {12} = (noc_init \cup {0}) \ {12}
    /\ \A c \in GridNodes \ ComputeCores, noc_id \in {0, 1} :
          12 \in RegNow(NodeKey(noc_id, c[1], c[2], NIU_CFG_0)) <=> 12 \in noc_init
    /\ gs_pc = "soft_reset" =>
          /\ \A c \in GridNodes \ ComputeCores :
                \A k \in NiuWritesTo(c) : 12 \in bus_log[k].v <=> 12 \in noc_init
          /\ \A c \in ComputeCores : Cardinality(NiuWritesTo(c)) = 4
          /\ RegNow(NocKey(1, 11, 10, "0xFFB30000", NIU_CFG_0)) =
                ((noc_init \cup {0}) \ {12}) \cup (IF 1 \in harvested_rows THEN {12} ELSE {})

\* setup_noc has run on a chip with harvested and enabled rows whose
\* registers had bit 12 set
C24_Witness ==
    /\ gs_pc = "soft_reset"
    /\ 12 \in noc_init
    /\ harvested_rows # {}
    /\ \E c \in ComputeCores : 12 \in RegNow(NodeKey(0, c[1], c[2], NIU_CFG_0))
    /\ \E c \in ComputeCores : 12 \notin RegNow(NodeKey(1, c[1], c[2], NIU_CFG_0))

-----------------------------------------------------------------------------
(* Properties of the harvesting read *)

IsGetHarvesting(e) == e.op = "arc_msg" /\ e.a[1] = "MSG_TYPE_ARC_GET_HARVESTING"

GetHarvestingIndices == {k \in 1..LogLen : IsGetHarvesting(bus_log[k])}

\* C25 as stated: the get-harvesting mailbox call is issued in the run of
\* tensix_reset, inside safe-clock mode, after the tensix hard-reset toggle
\* and before the first NOC configuration write.
C25_AsStated ==
    (gs_pc = "done" /\ ~gs_exc) =>
        \E k \in GetHarvestingIndices :
            /\ \E i \in 1..(k - 1) : IsEnterSafeClks(bus_log[i])
            /\ \A i \in 1..LogLen :
                  (bus_log[i].op = "write32" /\ bus_log[i].a[1] = "ARC_RESET.TENSIX_RESET") => i < k
            /\ \A i \in 1..LogLen : bus_log[i].op \in NocConfigOps => k < i

\* C25, amended: the get-harvesting mailbox call is issued once, by the
\* constructor of GSTensixReset, before tensix_reset enters safe-clock mode,
\* and not at all when the harvesting override is set; tensix_reset issues
\* no mailbox call but the two safe-clock calls, and uses in its steps 5 to 7
\* the rows and cores the constructor computed.
C25_HarvestingReadAtConstruction ==
    /\ GetHarvestingIndices \subseteq {1}
    /\ override => GetHarvestingIndices = {}
    /\ (~override /\ gs_pc # "new") => GetHarvestingIndices = {1}
    /\ (~override /\ gs_pc \notin {"new", "init_failed"}) => bus_log[1].ok
    /\ \A k \in MailboxIndices :
          \/ IsGetHarvesting(bus_log[k])
          \/ IsEnterSafeClks(bus_log[k]) /\ k = (IF override THEN 1 ELSE 2)
          \/ IsExitSafeClks(bus_log[k]) /\ k = LogLen /\ gs_pc = "done"
    /\ gs_pc \notin {"new", "init_failed"} =>
          /\ harvested_rows = get_harvested_rows(fuse)
          /\ core_list = get_core_list(harvested_rows)

\* a complete run on a chip without the override: the harvesting call first,
\* then the enter-safe-clock call, the toggle and the NOC writes
C25_Witness ==
    /\ gs_pc = "done"
    /\ ~gs_exc
    /\ ~override
    /\ IsGetHarvesting(bus_log[1])
    /\ IsEnterSafeClks(bus_log[2])
    /\ bus_log[11].a[1] = "ARC_RESET.TENSIX_RESET"
    /\ harvested_rows # {}

-----------------------------------------------------------------------------
(* Properties of the frame of register writes *)

\* the register a path info points at, on bus b: one word, or for a 64-bit
\* register the word at addr and the word after it
RegValue(b, pi) ==
    IF pi.Regsize = 64 /\ (pi.addr + 4) \in BusAddrs
    THEN b[pi.addr] \cup Shl(b[pi.addr + 4], 32)
    ELSE b[pi.addr]

RegWords(pi) ==
    IF pi.Regsize = 64 /\ (pi.addr + 4) \in BusAddrs THEN {pi.addr, pi.addr + 4} ELSE {pi.addr}

\* a write32 of a fitting value to a field narrower than its register
NarrowFieldWrite(call) ==
    /\ call.op = "write32"
    /\ FitsMask(call)
    /\ get_path_info(call.path).mask # get_mask_for_regsize(get_path_info(call.path).Regsize)

\* the call did one read and one write at addr and left in the register the
\* value read with the field replaced by data
ReadModifyWrite(call) ==
    LET pi == get_path_info(call.path)
        field == Shl(pi.mask, pi.shift)
    IN  /\ ~call.raised
        /\ call.log = <<<<"read", pi.addr>>, <<"write", pi.addr>>>>
        /\ Shr(RegValue(bus, pi), pi.shift) \cap pi.mask = call.data
        /\ RegValue(bus, pi) \ field = RegValue(call.before, pi) \ field
        /\ \A a \in BusAddrs \ RegWords(pi) : bus[a] = call.before[a]

\* the bits of the register the supplied fields of a write_fields call cover
CoveredBits(call) ==
    LET pi == get_path_info(call.path)
    IN  UNION {LET ms == get_mask_and_shift(pi.Fields[call.fields[k][1]], pi.Regsize)
               IN  Shl(ms[1], ms[2]) : k \in 1..Len(call.fields)}

NoRead(call) == \A k \in 1..Len(call.log) : call.log[k][1] # "read"

\* C26 as stated: write32 on a field narrower than its register does one
\* read and one write at the same address and changes only that field (every
\* bit outside the field is as read, the field's bits are the new value);
\* write_fields with init supplied writes init's bits in every position no
\* supplied field covers and does no read; a write32 to a whole register
\* does no read.
C26_FrameOfWrites ==
    /\ NarrowFieldWrite(reg_last) => ReadModifyWrite(reg_last)
    /\ (reg_last.op = "write32" /\ reg_last.path.field = "") => NoRead(reg_last)
    /\ (reg_last.op = "write_fields" /\ reg_last.init.given /\ ~reg_last.raised) =>
          /\ NoRead(reg_last)
          /\ reg_last.log # <<>>
          /\ RegValue(bus, get_path_info(reg_last.path)) \ CoveredBits(reg_last) =
                (reg_last.init.v \cap get_mask_for_regsize(get_path_info(reg_last.path).Regsize))
                    \ CoveredBits(reg_last)

-----------------------------------------------------------------------------
(* Properties of the voltage reading *)

\* C27 as stated: the core voltage reported depends only on the low 16 bits
\* of the VCORE word: in millivolts it is word & 0xFFFF, in the decoder of
\* either generation.
C27_VoltageLow16 ==
    (tm_last.op = "get_chip_telemetry" /\ ~tm_last.raised /\ smbus_telem_info["VCORE"].some) =>
        tm_last.result.voltage = Field(IntOf(smbus_telem_info, "VCORE"), 0, 16)

-----------------------------------------------------------------------------
(* Properties of the requested chips *)

\* the chips handed to a reset routine
PassedToReset ==
    UNION {Range(pci_calls[k].arg) :
             k \in {j \in 1..Len(pci_calls) : pci_calls[j].fn \in {"WHChipReset", "BHChipReset"}}}

\* C28 as stated: pci_board_reset never drops a requested chip while
\* reporting success: when it returns normally every index of the requested
\* list has been passed to a reset routine.
C28_NoChipDropped ==
    pci_pc = "returned" => Range(list_of_boards) \subseteq PassedToReset

-----------------------------------------------------------------------------
(* Properties of the batch writes *)

\* a name of the batch that is not a field of the register
UnknownField(call) ==
    /\ ~get_path_info(call.path).raised
    /\ \E k \in 1..Len(call.fields) :
          call.fields[k][1] \notin DOMAIN get_path_info(call.path).Fields

NoWrite(call) == \A k \in 1..Len(call.log) : call.log[k][1] # "write"

\* C29 as stated: write_fields or rmw_fields called with an unknown field
\* name or with a value that does not fit the mask of its field raises with
\* no bus write performed, whichever place the offending field has in the
\* batch and whether or not the fields of the register are separate words
\* (fields with a byte offset).
C29_AllOrNothing ==
    (reg_last.op \in {"write_fields", "rmw_fields"}
        /\ (UnknownField(reg_last) \/ BadFieldValue(reg_last))) =>
        /\ reg_last.raised
        /\ NoWrite(reg_last)
        /\ bus = reg_last.before

-----------------------------------------------------------------------------
(* Properties of the telemetry thread *)

\* the threads that have chip c on the bus
Refreshing(c) ==
    {t \in DOMAIN TELEM_THREADS : TELEM_THREADS[t].pc = "reading" /\ TELEM_THREADS[t].i = c}

\* C30: however many times the telemetry tab is activated, at most one
\* telemetry thread is ever started, so no two threads ever refresh the
\* telemetry of one chip over the bus at the same time.
C30_OneTelemThread ==
    /\ Len(TELEM_THREADS) <= 1
    /\ RUNNING_TELEM_THREAD <=> Len(TELEM_THREADS) = 1
    /\ \A c \in 0..(ui_devices - 1) : Cardinality(Refreshing(c)) <= 1

\* the telemetry tab was activated three times; the one thread is reading
\* the second chip
C30_Witness ==
    /\ ui_disp >= 3
    /\ Len(TELEM_THREADS) = 1
    /\ Refreshing(1) = {1}

=============================================================================
